---- MODULE Spec2Model ----
(***************************************************************************)
(* A model of the glyph-atlas rendering backend BackendD3D                  *)
(* (src/src/renderer/atlas/BackendD3D.cpp): the generation-stamped          *)
(* settings update, the glyph cache, the atlas sizing and reset policy,     *)
(* the overflow retry and the per-frame cell grid.                          *)
(*                                                                         *)
(* All quantities are integers.  The 32-bit products of the sizing policy  *)
(* are exact for the inputs enumerated here (every product stays below     *)
(* 2^31); the 16-bit narrowing of the atlas dimensions is modelled.        *)
(***************************************************************************)
EXTENDS Integers, Sequences, FiniteSets, TLC

(***************************************************************************)
(* Arithmetic helpers                                                      *)
(***************************************************************************)
Min(a, b) == IF a < b THEN a ELSE b

Max(a, b) == IF a > b THEN a ELSE b

\* A plausible slip: the value is not clipped.
Clamp_None(v, lo, hi) == v

\* clamp(v, lo, hi) as used in _resetGlyphAtlas, _splitDoubleHeightGlyph and
\* _drawGridlines
Clamp(v, lo, hi) == IF v < lo THEN lo ELSE IF v > hi THEN hi ELSE v

RECURSIVE Pow2(_)
Pow2(n) == IF n <= 0 THEN 1 ELSE 2 * Pow2(n - 1)

\* _BitScanReverse: index of the highest set bit of x (x > 0)
RECURSIVE BitScanReverse(_)
BitScanReverse(x) == IF x <= 1 THEN 0 ELSE 1 + BitScanReverse(x \div 2)

\* static_cast<u16>
U16(x) == x % 65536

\* C++ integer division (truncation towards zero), divisor positive
CDiv(a, b) == IF a >= 0 THEN a \div b ELSE -((-a) \div b)

IsPow2(x) == x > 0 /\ Pow2(BitScanReverse(x)) = x

(***************************************************************************)
(* Atlas sizing policy (_resetGlyphAtlas, lines 576-603)                   *)
(***************************************************************************)
minArea == 1024 * 1024

\* D3D10_REQ_TEXTURE2D_U_OR_V_DIMENSION
MaxTextureDim == 8192

maxArea == MaxTextureDim * MaxTextureDim

\* Number of printable ASCII characters the atlas should hold at least
PrintableAscii == 95

minAreaByFont(cellW, cellH) == (cellW * cellH) * PrintableAscii

minAreaByGrowth(packW, packH) == packW * packH * 2

maxAreaByFont(targetW, targetH) == (targetW * targetH) + (targetW * targetH) \div 4

\* A plausible slip: clamp first, then cap by the swap chain size.
AtlasTargetArea_CapLast(cellW, cellH, targetW, targetH, packW, packH) ==
    Min(maxAreaByFont(targetW, targetH),
        Clamp(Max(minAreaByFont(cellW, cellH), minAreaByGrowth(packW, packH)),
              minArea, maxArea))

\* area = clamp(min(maxAreaByFont, max(minAreaByFont, minAreaByGrowth)), minArea, maxArea)
AtlasTargetArea(cellW, cellH, targetW, targetH, packW, packH) ==
    Clamp(Min(maxAreaByFont(targetW, targetH),
              Max(minAreaByFont(cellW, cellH), minAreaByGrowth(packW, packH))),
          minArea, maxArea)

\* A plausible slip: the same exponent as for v.
AtlasU_SameAsV(area) == U16(Pow2((BitScanReverse(area - 1) + 1) \div 2))

\* u = static_cast<u16>(1u << ((index + 2) / 2)), index = BSR(area - 1)
AtlasU(area) == U16(Pow2((BitScanReverse(area - 1) + 2) \div 2))

\* A plausible slip: the exponent of v rounded down twice.
AtlasV_Halved(area) == U16(Pow2(BitScanReverse(area - 1) \div 2))

\* v = static_cast<u16>(1u << ((index + 1) / 2))
AtlasV(area) == U16(Pow2((BitScanReverse(area - 1) + 1) \div 2))

(***************************************************************************)
(* Inputs: the settings snapshot and the shaped rows handed to Render      *)
(***************************************************************************)
\* Most settings changes (generation bumps) in one behaviour
MaxGen == 2

\* Most Render calls in one behaviour
MaxRenders == 2

\* The fixed cell grid: Cell _cells[30][120] (lines 774, 809-811)
GridColumns == 120

GridRows == 30

\* p.s->font: cell metrics in pixels.  Large cells make the atlas small
\* relative to a glyph, so that overflow happens within a few glyphs; the
\* last two fonts have the cells of an everyday terminal font, with the
\* standard ligatures feature on and off.
FontMenu ==
    << [cellW |-> 512, cellH |-> 512, baseline |-> 384, descender |-> 128,
        advanceWidth |-> 512, ligatures |-> TRUE, clearType |-> FALSE,
        softFontChars |-> 0],
       [cellW |-> 600, cellH |-> 600, baseline |-> 450, descender |-> 150,
        advanceWidth |-> 600, ligatures |-> TRUE, clearType |-> TRUE,
        softFontChars |-> 0],
       [cellW |-> 8, cellH |-> 16, baseline |-> 12, descender |-> 4,
        advanceWidth |-> 8, ligatures |-> TRUE, clearType |-> FALSE,
        softFontChars |-> 0],
       [cellW |-> 8, cellH |-> 16, baseline |-> 12, descender |-> 4,
        advanceWidth |-> 8, ligatures |-> FALSE, clearType |-> FALSE,
        softFontChars |-> 0] >>

\* The fonts with large cells, and the fonts with small ones
PlainFonts == 1..2

SmallFonts == 3..4

\* p.s->targetSize with p.s->viewportCellCount; the last is the smaller
\* window in cells of 8 x 16 pixels
ViewportMenu ==
    << [targetSize |-> [x |-> 1024, y |-> 768], viewportCellCount |-> [x |-> 4, y |-> 2]],
       [targetSize |-> [x |-> 1920, y |-> 1080], viewportCellCount |-> [x |-> 6, y |-> 3]],
       [targetSize |-> [x |-> 1024, y |-> 768], viewportCellCount |-> [x |-> 128, y |-> 48]] >>

\* The windows of the fonts with large cells, and that of the small ones
PlainViewports == 1..2

SmallViewport == 3

\* p.s->misc: useRetroTerminalEffect, customPixelShaderPath, and the latter
\* together with customPixelShaderImagePath
MiscMenu == {"none", "retro", "custom", "customImage"}

\* Shaped rows of a frame: line rendition, glyphs as <<font face, glyph index>>
\* (font face 0 = no font face: built-in glyphs, the index is a code point)
\* and, where the shaping moved glyphs, row->glyphOffsets as
\* << advanceOffset, ascenderOffset >> in pixels.  Frames 5 to 7 hold the
\* glyphs the ligature thresholds tell apart, on rows of every line
\* rendition; frame 8 has one row more than the cell grid; frame 9 has glyphs
\* the shaping moved left of the first column, above the first row and
\* right of the last column.
FrameMenu ==
    << [colors |-> 1,
        rows |-> << [lineRendition |-> "SingleWidth",
                     glyphs |-> << <<1, 1>>, <<1, 0>>, <<0, 9472>> >>] >>],
       [colors |-> 2,
        rows |-> << [lineRendition |-> "DoubleHeightTop",
                     glyphs |-> << <<0, 9472>>, <<0, 9474>> >>],
                    [lineRendition |-> "DoubleHeightBottom",
                     glyphs |-> << <<0, 9472>>, <<0, 9474>> >>] >>],
       [colors |-> 1,
        rows |-> << [lineRendition |-> "DoubleHeightBottom",
                     glyphs |-> << <<1, 1>> >>],
                    [lineRendition |-> "SingleWidth",
                     glyphs |-> << <<1, 1>>, <<1, 2>> >>] >>],
       [colors |-> 2,
        rows |-> << [lineRendition |-> "SingleWidth",
                     glyphs |-> << <<0, 61216>>, <<0, 61217>>, <<1, 1>>,
                                   <<0, 61217>> >>],
                    [lineRendition |-> "DoubleHeightTop",
                     glyphs |-> << <<0, 61217>>, <<0, 61216>> >>] >>],
       [colors |-> 1,
        rows |-> << [lineRendition |-> "SingleWidth",
                     glyphs |-> << <<1, 3>>, <<1, 4>>, <<1, 6>>, <<1, 0>>,
                                   <<0, 9472>> >>] >>],
       [colors |-> 1,
        rows |-> << [lineRendition |-> "DoubleWidth",
                     glyphs |-> << <<1, 3>>, <<1, 4>>, <<1, 6>>, <<1, 7>> >>] >>],
       [colors |-> 2,
        rows |-> << [lineRendition |-> "DoubleHeightTop",
                     glyphs |-> << <<1, 5>>, <<1, 6>> >>],
                    [lineRendition |-> "DoubleHeightBottom",
                     glyphs |-> << <<1, 5>>, <<1, 2>> >>] >>],
       [colors |-> 1,
        rows |-> [y \in 1..(GridRows + 1) |->
                    [lineRendition |-> "SingleWidth",
                     glyphs |-> IF y \in {1, GridRows, GridRows + 1}
                                THEN << <<1, 1>> >> ELSE << >>]]],
       [colors |-> 1,
        rows |-> << [lineRendition |-> "SingleWidth",
                     glyphs |-> << <<1, 1>>, <<1, 1>> >>,
                     glyphOffsets |-> << << -16, 0 >>, << 2, 1 >> >>],
                    [lineRendition |-> "SingleWidth",
                     glyphs |-> << <<1, 1>>, <<1, 2>> >>,
                     glyphOffsets |-> << << -16, 0 >>, << 0, 48 >> >>],
                    [lineRendition |-> "DoubleWidth",
                     glyphs |-> << <<1, 1>> >>,
                     glyphOffsets |-> << << 480, 0 >> >>] >>] >>

\* The frames without soft-font characters, and the frame with the first
\* two of them (U+EF20, U+EF21)
PlainFrames == 1..3

SoftFontFrames == {4}

\* The frames with the glyphs the ligature thresholds tell apart
OverlapFrames == 5..7

\* A single row, the frame of more rows than the grid has, and the frame
\* with shaping offsets
StampFrames == {1, 8, 9}

LineRenditions == {"SingleWidth", "DoubleWidth", "DoubleHeightTop", "DoubleHeightBottom"}

\* row->lineRendition != LineRendition::SingleWidth
IsDoubleWidth(lr) == lr # "SingleWidth"

\* row->lineRendition >= LineRendition::DoubleHeightTop
IsDoubleHeight(lr) == lr \in {"DoubleHeightTop", "DoubleHeightBottom"}

\* The ink box of a glyph relative to its baseline origin at identity
\* transform, as DirectWrite reports it: glyph 0 is whitespace, 1 a capital
\* filling the cell above the baseline, 2 a low mark (full stop), 3 a
\* two-cell ligature overhanging to the left, 4 exactly one cell wide, 5 wide
\* and reaching the right threshold, 6 reaching the left threshold but
\* narrower than a cell, 7 wide and just inside both thresholds.
GlyphRunBounds(font, glyphIndex) ==
    CASE glyphIndex = 1 ->
           [left |-> 0, top |-> -font.baseline,
            right |-> font.cellW - font.cellW \div 8, bottom |-> 0]
      [] glyphIndex = 2 ->
           [left |-> font.cellW \div 4, top |-> -(font.cellH \div 4),
            right |-> font.cellW \div 2, bottom |-> 0]
      [] glyphIndex = 3 ->
           [left |-> -(font.cellW \div 2) - 1, top |-> -(font.baseline \div 2),
            right |-> font.cellW + font.cellW \div 2, bottom |-> 0]
      [] glyphIndex = 4 ->
           [left |-> 0, top |-> -font.baseline,
            right |-> font.cellW, bottom |-> 0]
      [] glyphIndex = 5 ->
           [left |-> 0, top |-> -font.baseline,
            right |-> font.advanceWidth + font.cellW \div 2, bottom |-> 0]
      [] glyphIndex = 6 ->
           [left |-> -(font.cellW \div 2), top |-> -font.baseline,
            right |-> font.cellW \div 4, bottom |-> 0]
      [] glyphIndex = 7 ->
           [left |-> 1 - font.cellW \div 2, top |-> -font.baseline,
            right |-> font.advanceWidth + font.cellW \div 2 - 1, bottom |-> 0]
      [] OTHER -> [left |-> 0, top |-> 0, right |-> 0, bottom |-> 0]

\* The transform set for the row (lines 1077-1085) applied to the ink box b
WorldBounds(b, lr) ==
    LET sx == IF IsDoubleWidth(lr) THEN 2 ELSE 1
        sy == IF IsDoubleHeight(lr) THEN 2 ELSE 1
    IN [left |-> b.left * sx, top |-> b.top * sy,
        right |-> b.right * sx, bottom |-> b.bottom * sy]

\* GetGlyphRunWorldBounds under the transform set for the row (lines 1077-1085, 1129)
GlyphWorldBounds(font, lr, glyphIndex) ==
    WorldBounds(GlyphRunBounds(font, glyphIndex), lr)

(***************************************************************************)
(* State                                                                   *)
(***************************************************************************)
VARIABLES
    \* the payload handed to Render: generation stamps and settings
    \* (p.s), the frame's rows and colour buffers
    p,
    \* cached stamps of BackendD3D
    generation, fontGeneration, miscGeneration, targetSize, viewportCellCount,
    \* GPU resources tied to the settings
    renderTargetView, customRenderTargetView, customOffscreenTexture,
    customPixelShader, requiresContinuousRedraw, backgroundBitmap,
    \* font dependents
    fontChangedResetGlyphAtlas, textShadingType, ligatureOverhangTrigger,
    \* the atlas: texture dimensions, packer, drawing session, caches
    glyphAtlas, rectPacker, rectPackerData, d2dBeganDrawing,
    glyphAtlasMap, glyphAtlasBitmaps,
    \* the Direct2D render target of the atlas (_d2dRenderTarget): whether a
    \* BeginDraw is outstanding on it
    d2dRenderTarget,
    \* the cell grid: colours copied from the payload and the stamped cells
    \* (a cell that is no key of cells holds the no-glyph sentinel)
    cellColors, cells,
    \* position of the Render in progress
    pc, rowY, glyphX, req,
    \* which side of the unresolved merge at lines 1346-1354 the build took:
    \* "upstream" flushes the cell grid before the reset, "stashed" does not;
    \* "open" until the overflow path first runs
    mergeSide,
    \* observation of the calls made, for the properties
    hist,
    \* inputs and results of the sizing policy taken alone
    sizing,
    \* inputs and results of the double-height split taken alone
    split,
    \* dirty tracking of the payload: p.invalidatedRows, p.dirtyRectInPx as
    \* the caller passed it (given) and as it is (rect), row->dirtyTop and
    \* row->dirtyBottom of every row (rows), and the locals dirtyTop and
    \* dirtyBottom of _drawText (acc)
    dirty,
    \* inputs and results of _drawBackground, of the horizontal lines of
    \* _drawGridlines and of the dispatch of _flushQuads, each taken alone
    background, gridlines, dispatch,
    \* inputs and results of the curly underline geometry of
    \* _updateFontDependents taken alone
    curly,
    \* the time of the custom shader: the frequency of the performance
    \* counter (freq), _customShaderPerfTickMod (mod) and, once
    \* _executeCustomShader has computed the time of a Render (stage
    \* "time"), the counter read (now), the counter modulo mod (rem) and
    \* the int it was narrowed to (ticks)
    shaderTime,
    \* one call of _drawGlyph for a font glyph taken alone: the state of the
    \* Direct2D render target and the entry recorded
    color

settingsVars == << generation, fontGeneration, miscGeneration, targetSize,
                   viewportCellCount, renderTargetView, customRenderTargetView,
                    customOffscreenTexture,
                   customPixelShader, requiresContinuousRedraw, backgroundBitmap,
                   fontChangedResetGlyphAtlas, textShadingType, ligatureOverhangTrigger >>

atlasVars == << glyphAtlas, rectPacker, rectPackerData, d2dBeganDrawing,
                glyphAtlasMap, glyphAtlasBitmaps, d2dRenderTarget >>

vars == << p, settingsVars, atlasVars, cellColors, cells, pc, rowY, glyphX, req,
           mergeSide, hist, sizing, split, dirty, background, gridlines,
           dispatch, curly, shaderTime, color >>

Font == [FontMenu[p.font] EXCEPT !.softFontChars = p.softFontChars]

Rows == FrameMenu[p.frame].rows

EmptyMap == << >>

Has(map, key) == key \in DOMAIN map

(***************************************************************************)
(* The rectangle packer.  stb_rect_pack is not part of the sources at      *)
(* hand; it is modelled as an online shelf packer over (width, height).    *)
(***************************************************************************)
\* stbrp_init_target(&_rectPacker, u, v, ...)
stbrp_init_target(u, v) ==
    [width |-> u, height |-> v, shelfY |-> 0, shelfH |-> 0, cursorX |-> 0]

\* stbrp_pack_rects(&_rectPacker, &rect, 1): [ok, x, y, packer]
stbrp_pack_rects(pk, w, h) ==
    IF w > pk.width \/ h > pk.height
    THEN [ok |-> FALSE, x |-> 0, y |-> 0, packer |-> pk]
    ELSE IF pk.cursorX + w <= pk.width /\ pk.shelfY + h <= pk.height
    THEN [ok |-> TRUE, x |-> pk.cursorX, y |-> pk.shelfY,
          packer |-> [pk EXCEPT !.cursorX = pk.cursorX + w,
                                !.shelfH = Max(pk.shelfH, h)]]
    ELSE IF pk.shelfY + pk.shelfH + h <= pk.height
    THEN [ok |-> TRUE, x |-> 0, y |-> pk.shelfY + pk.shelfH,
          packer |-> [pk EXCEPT !.cursorX = w,
                                !.shelfY = pk.shelfY + pk.shelfH,
                                !.shelfH = h]]
    ELSE [ok |-> FALSE, x |-> 0, y |-> 0, packer |-> pk]

(***************************************************************************)
(* _handleSettingsUpdate and what it calls (lines 148-472)                  *)
(***************************************************************************)
\* til::CoordTypeMax (line 238); til::CoordTypeMin is -CoordTypeMax - 1
CoordTypeMax == 2147483647

CoordTypeMin == -CoordTypeMax - 1

\* The sides of the unresolved merge in _drawGlyphAtlasAllocate (lines
\* 1346-1354) that a build whose Render is the whole of the drawing is made
\* of: "Updated upstream" calls _flushQuads before _resetGlyphAtlas,
\* "Stashed changes" does not.
MergeSides == {"upstream", "stashed"}

\* The steps of a settings update at which resource creation can fail;
\* "backgroundBitmap" is CreateTexture2D of line 469, "backgroundBitmapView"
\* CreateShaderResourceView of line 470
FailPoints == {"none", "renderTargetView", "pixelShader", "shaderResources",
               "backgroundBitmap", "backgroundBitmapView",
               "customOffscreenTexture", "customRenderTargetView"}

\* The settings-dependent part of the backend as one record
SettingsState ==
    [renderTargetView |-> renderTargetView,
     customRenderTargetView |-> customRenderTargetView,
     customOffscreenTexture |-> customOffscreenTexture,
     customPixelShader |-> customPixelShader,
     requiresContinuousRedraw |-> requiresContinuousRedraw,
     backgroundBitmap |-> backgroundBitmap,
     fontChangedResetGlyphAtlas |-> fontChangedResetGlyphAtlas,
     textShadingType |-> textShadingType,
     ligatureOverhangTrigger |-> ligatureOverhangTrigger,
     failed |-> FALSE, font |-> FALSE, misc |-> FALSE, bitmap |-> FALSE,
     tickMod |-> FALSE, warnings |-> 0]

\* lines 150-155: THROW_IF_FAILED(GetBuffer / CreateUnorderedAccessView)
CreateRenderTargetView(s, fail) ==
    IF s.renderTargetView THEN s
    ELSE IF fail = "renderTargetView" THEN [s EXCEPT !.failed = TRUE]
    ELSE [s EXCEPT !.renderTargetView = TRUE]

\* A plausible slip: the font update forgets to mark the atlas for a reset.
UpdateFontDependents_NoFlag(s, font) ==
    [s EXCEPT !.font = TRUE,
              !.textShadingType =
                  IF font.clearType THEN "TextClearType" ELSE "TextGrayscale",
              !.ligatureOverhangTrigger =
                  IF ~font.ligatures
                  THEN << CoordTypeMin, CoordTypeMax >>
                  ELSE << -(font.cellW \div 2),
                          font.advanceWidth + font.cellW \div 2 >>]


\* _updateFontDependents (lines 191-254)
UpdateFontDependents(s, font) ==
    [s EXCEPT !.font = TRUE,
              !.fontChangedResetGlyphAtlas = TRUE,
              !.textShadingType =
                  IF font.clearType THEN "TextClearType" ELSE "TextGrayscale",
              !.ligatureOverhangTrigger =
                  IF ~font.ligatures
                  THEN << CoordTypeMin, CoordTypeMax >>
                  ELSE << -(font.cellW \div 2),
                          font.advanceWidth + font.cellW \div 2 >>]

\* A plausible slip: a shader that failed to compile, or whose image failed
\* to load, is installed all the same.
RecreateCustomShader_KeepBroken(s, misc, fail, hr, reflect, image) ==
    LET cleared == [s EXCEPT !.misc = TRUE,
                             !.customRenderTargetView = FALSE,
                             !.customOffscreenTexture = FALSE,
                             !.customPixelShader = FALSE,
                             !.requiresContinuousRedraw = FALSE]
    IN IF misc = "none" THEN cleared
       ELSE IF fail \in {"pixelShader", "shaderResources"}
       THEN [cleared EXCEPT !.failed = TRUE]
       ELSE [cleared EXCEPT !.customPixelShader = TRUE,
                            !.tickMod = TRUE,
                            !.requiresContinuousRedraw =
                                (misc # "retro" /\ reflect # "unused"),
                            !.warnings = IF misc # "retro" /\ hr = "error"
                                         THEN 1 ELSE 0]

\* _recreateCustomShader (lines 263-430).  hr is the result of compiling the
\* user's shader, reflect what reflection finds about its time variable
\* ("failed": D3DReflect failed; "used"; "unused": not used or not found),
\* image the result of loading the shader's image.  warnings counts the calls
\* of p.warningCallback, which the payload supplies; tickMod tells that
\* _customShaderPerfTickMod was set (lines 425-427).
RecreateCustomShader(s, misc, fail, hr, reflect, image) ==
    LET \* lines 265-274
        cleared == [s EXCEPT !.misc = TRUE,
                             !.customRenderTargetView = FALSE,
                             !.customOffscreenTexture = FALSE,
                             !.customPixelShader = FALSE,
                             !.requiresContinuousRedraw = FALSE]
        \* lines 320-349
        compiled == [cleared EXCEPT !.customPixelShader = TRUE,
                                    !.requiresContinuousRedraw = (reflect # "unused")]
        \* lines 351-369
        warned == [cleared EXCEPT !.warnings = @ + 1]
        afterCompile == IF hr = "ok" THEN compiled ELSE warned
        \* lines 371-386
        afterImage == IF misc = "customImage" /\ image = "failed"
                      THEN [afterCompile EXCEPT !.customPixelShader = FALSE,
                                                !.warnings = @ + 1]
                      ELSE afterCompile
        \* lines 388-391
        retro == [cleared EXCEPT !.customPixelShader = TRUE]
        \* lines 393-429: with a pixel shader installed the vertex shader,
        \* the constant buffer and the sampler are created, then the
        \* modulus of the shader's time is set
        resources(t) == IF ~t.customPixelShader THEN t
                        ELSE IF fail = "shaderResources"
                        THEN [t EXCEPT !.failed = TRUE]
                        ELSE [t EXCEPT !.tickMod = TRUE]
    IN IF misc \in {"custom", "customImage"}
       THEN IF hr = "ok" /\ fail = "pixelShader"
            THEN [cleared EXCEPT !.failed = TRUE]
            ELSE resources(afterImage)
       ELSE IF misc = "retro"
       THEN IF fail = "pixelShader"
            THEN [cleared EXCEPT !.failed = TRUE]
            ELSE resources(retro)
       ELSE cleared

\* _recreateBackgroundColorBitmap (lines 452-472): the bitmap and its view
\* are released (lines 455-456), then the texture is created (line 469),
\* then its view (line 470).  When the view fails the new texture stays in
\* _backgroundBitmap with no view on it.
RecreateBackgroundColorBitmap(s, fail) ==
    IF fail = "backgroundBitmap"
    THEN [s EXCEPT !.bitmap = TRUE, !.backgroundBitmap = FALSE, !.failed = TRUE]
    ELSE IF fail = "backgroundBitmapView"
    THEN [s EXCEPT !.bitmap = TRUE, !.backgroundBitmap = TRUE, !.failed = TRUE]
    ELSE [s EXCEPT !.bitmap = TRUE, !.backgroundBitmap = TRUE]

\* lines 176-179 with _recreateCustomRenderTargetView (lines 432-450): the
\* offscreen texture is released, then created, then its views
RecreateCustomRenderTargetView(s, fail) ==
    IF ~(s.customPixelShader /\ ~s.customRenderTargetView) THEN s
    ELSE IF fail = "customOffscreenTexture"
    THEN [s EXCEPT !.customOffscreenTexture = FALSE, !.failed = TRUE]
    ELSE IF fail = "customRenderTargetView"
    THEN [s EXCEPT !.customOffscreenTexture = TRUE, !.failed = TRUE]
    ELSE [s EXCEPT !.customOffscreenTexture = TRUE, !.customRenderTargetView = TRUE]

\* A plausible slip: the three recreations keyed on the overall generation only.
UpdateSteps_Always(s0, fail, hr, reflect, image) ==
    LET s1 == CreateRenderTargetView(s0, fail)
        s2 == IF s1.failed THEN s1 ELSE UpdateFontDependents(s1, Font)
        s3 == IF s2.failed THEN s2
              ELSE RecreateCustomShader(s2, p.misc, fail, hr, reflect, image)
        s4 == IF s3.failed THEN s3 ELSE RecreateBackgroundColorBitmap(s3, fail)
    IN IF s4.failed THEN s4 ELSE RecreateCustomRenderTargetView(s4, fail)

\* A plausible slip: the custom render-target view is seen to before the
\* custom shader is recreated.
UpdateSteps_ViewFirst(s0, fail, hr, reflect, image) ==
    LET fontChanged == fontGeneration # p.fontGen
        miscChanged == miscGeneration # p.miscGen
        cellCountChanged == viewportCellCount # p.viewportCellCount
        s1 == CreateRenderTargetView(s0, fail)
        s2 == IF s1.failed \/ ~fontChanged THEN s1
              ELSE UpdateFontDependents(s1, Font)
        s3 == IF s2.failed THEN s2 ELSE RecreateCustomRenderTargetView(s2, fail)
        s4 == IF s3.failed \/ ~miscChanged THEN s3
              ELSE RecreateCustomShader(s3, p.misc, fail, hr, reflect, image)
    IN IF s4.failed \/ ~cellCountChanged THEN s4
       ELSE RecreateBackgroundColorBitmap(s4, fail)

\* lines 150-179: the body of _handleSettingsUpdate up to the stamps; an
\* error raised by one step skips the steps after it
UpdateSteps(s0, fail, hr, reflect, image) ==
    LET fontChanged == fontGeneration # p.fontGen
        miscChanged == miscGeneration # p.miscGen
        cellCountChanged == viewportCellCount # p.viewportCellCount
        s1 == CreateRenderTargetView(s0, fail)
        s2 == IF s1.failed \/ ~fontChanged THEN s1
              ELSE UpdateFontDependents(s1, Font)
        s3 == IF s2.failed \/ ~miscChanged THEN s2
              ELSE RecreateCustomShader(s2, p.misc, fail, hr, reflect, image)
        s4 == IF s3.failed \/ ~cellCountChanged THEN s3
              ELSE RecreateBackgroundColorBitmap(s3, fail)
    IN IF s4.failed THEN s4 ELSE RecreateCustomRenderTargetView(s4, fail)

\* What a settings update can come to, over the steps at which resource
\* creation can fail, the result hr of compiling the user's shader, what
\* reflection finds about its time variable and the result of loading its
\* image.  The last three are looked at only when the user's shader is
\* recreated (lines 276-386).
UpdateOutcomes ==
    LET shader == miscGeneration # p.miscGen /\ p.misc \in {"custom", "customImage"}
    IN { UpdateSteps(SettingsState, fail, hr, reflect, image) :
           fail \in FailPoints,
           hr \in IF shader THEN {"ok", "error"} ELSE {"ok"},
           reflect \in IF shader THEN {"failed", "used", "unused"} ELSE {"used"},
           image \in IF shader /\ p.misc = "customImage"
                     THEN {"ok", "failed"} ELSE {"ok"} }

\* The cached stamps as they are
CurrentStamps ==
    [generation |-> generation, fontGeneration |-> fontGeneration,
     miscGeneration |-> miscGeneration, targetSize |-> targetSize,
     viewportCellCount |-> viewportCellCount]

\* The stamps of the payload
PayloadStamps ==
    [generation |-> p.gen, fontGeneration |-> p.fontGen,
     miscGeneration |-> p.miscGen, targetSize |-> p.targetSize,
     viewportCellCount |-> p.viewportCellCount]

\* A plausible slip: the overall stamp is adopted before the steps that can fail.
AdoptedStamps_Early(s) ==
    IF s.failed THEN [CurrentStamps EXCEPT !.generation = p.gen] ELSE PayloadStamps

\* lines 184-188: the stamps are adopted after every step that can fail
AdoptedStamps(s) == IF s.failed THEN CurrentStamps ELSE PayloadStamps

\* line 113: _generation != p.s.generation()
SettingsChanged == generation # p.gen

(***************************************************************************)
(* The atlas reset and the glyph cache (lines 571-632, 960-1404)            *)
(***************************************************************************)
\* A plausible slip: the built-in glyph entries (font face 0) survive.
ClearGlyphs_KeepBuiltin(map) ==
    [k \in {k \in DOMAIN map : k[1] = 0} |-> map[k]]

\* lines 616-626: glyphs.clear() for every line rendition of every tracked
\* font face and of _builtinGlyphs (font face 0 in this model)
ClearGlyphs(map) == EmptyMap

\* A plausible slip: the texture is recreated on every reset.
ResetGlyphAtlas_AlwaysResize ==
    LET area == AtlasTargetArea(Font.cellW, Font.cellH,
                                p.targetSize.x, p.targetSize.y,
                                rectPacker.width, rectPacker.height)
        u == AtlasU(area)
        v == AtlasV(area)
    IN [glyphAtlas |-> [u |-> u, v |-> v],
        rectPackerData |-> u,
        rectPacker |-> stbrp_init_target(u, v),
        glyphAtlasMap |-> ClearGlyphs(glyphAtlasMap),
        resized |-> TRUE]

\* A plausible slip: the glyph containers are not cleared.
ResetGlyphAtlas_KeepGlyphs ==
    LET area == AtlasTargetArea(Font.cellW, Font.cellH,
                                p.targetSize.x, p.targetSize.y,
                                rectPacker.width, rectPacker.height)
        u == AtlasU(area)
        v == AtlasV(area)
        resize == u # rectPacker.width \/ v # rectPacker.height
    IN [glyphAtlas |-> IF resize THEN [u |-> u, v |-> v] ELSE glyphAtlas,
        rectPackerData |-> IF resize THEN u ELSE rectPackerData,
        rectPacker |-> stbrp_init_target(u, v),
        glyphAtlasMap |-> glyphAtlasMap,
        resized |-> resize]

\* _resetGlyphAtlas (lines 571-632): the new texture size, a fresh packer,
\* empty glyph containers, an open drawing session, the pending flag
\* cleared.  _glyphAtlasBitmaps is not touched (and nothing fills it: its
\* only writer, _drawBitmap at line 1634, is called from nowhere).
ResetGlyphAtlas ==
    LET area == AtlasTargetArea(Font.cellW, Font.cellH,
                                p.targetSize.x, p.targetSize.y,
                                rectPacker.width, rectPacker.height)
        u == AtlasU(area)
        v == AtlasV(area)
        resize == u # rectPacker.width \/ v # rectPacker.height
    IN [glyphAtlas |-> IF resize THEN [u |-> u, v |-> v] ELSE glyphAtlas,
        rectPackerData |-> IF resize THEN u ELSE rectPackerData,
        rectPacker |-> stbrp_init_target(u, v),
        glyphAtlasMap |-> ClearGlyphs(glyphAtlasMap),
        resized |-> resize]

\* x << s for a 32-bit signed x and s in {0, 1}
Shl32(x, s) ==
    IF s = 0 THEN x
    ELSE (x % 1073741824) * 2
         + (IF (x \div 1073741824) % 2 = 1 THEN CoordTypeMin ELSE 0)

\* First code point of the soft font range (line 1285)
SoftFontBase == 61216

\* BuiltinGlyphs::IsSoftFontChar
IsSoftFontChar(ch) == ch >= SoftFontBase /\ ch < SoftFontBase + 96

\* A plausible slip: the pattern table is not consulted.
DrawSoftFontGlyph_NoTableTest(font, glyphIndex, fail) ==
    IF fail = "softFontBitmap"
    THEN [threw |-> TRUE, shadingType |-> "Default"]
    ELSE [threw |-> FALSE, shadingType |-> "TextGrayscale"]


\* _drawSoftFontGlyph (lines 1281-1336): whether it raises and, when it
\* returns, the shading type it returns.  A character outside the pattern
\* table returns at line 1291, before any call that can fail.
DrawSoftFontGlyph(font, glyphIndex, fail) ==
    IF glyphIndex - SoftFontBase >= font.softFontChars
    THEN [threw |-> FALSE, shadingType |-> "Default"]
    ELSE IF fail = "softFontBitmap"
    THEN [threw |-> TRUE, shadingType |-> "Default"]
    ELSE [threw |-> FALSE, shadingType |-> "TextGrayscale"]

\* Whether drawing the glyph raises after its rectangle was allocated and
\* before its entry is allocated (lines 1241-1244, 1263)
DrawGlyphThrows(font, face, glyphIndex, fail) ==
    /\ face = 0
    /\ IsSoftFontChar(glyphIndex)
    /\ DrawSoftFontGlyph(font, glyphIndex, fail).threw

\* Whether handling the glyph makes drawing calls on the render target when
\* nothing fails: DrawGlyphRun (line 1175), DrawBuiltinGlyph (line 1259),
\* DrawBitmap (line 1328); a soft-font character outside the pattern table
\* makes none (line 1291)
GlyphDraws(font, face, glyphIndex) ==
    ~(/\ face = 0
      /\ IsSoftFontChar(glyphIndex)
      /\ glyphIndex - SoftFontBase >= font.softFontChars)

\* How the drawing of a glyph ends once its rectangle is granted (lines
\* 1160-1212, 1231-1278), began being _d2dBeganDrawing and rt the render
\* target: "crashed" when _d2dRenderTarget is null and a call is made
\* through it, which is BeginDraw (line 557) unless a session is flagged
\* open, and otherwise the first drawing call (lines 1171-1176, 1259, 1307,
\* 1328); only a soft-font character outside the pattern table makes none
\* (line 1291).  "softFontFailed" when _drawSoftFontGlyph raises, "drawn"
\* otherwise.
GlyphDrawn(font, face, glyphIndex, fail, began, rt) ==
    IF /\ ~rt.exists
       /\ \/ ~began
          \/ GlyphDraws(font, face, glyphIndex)
    THEN "crashed"
    ELSE IF DrawGlyphThrows(font, face, glyphIndex, fail)
    THEN "softFontFailed"
    ELSE "drawn"

\* lines 1145-1158: the stbrp_rect of the ink box b, none when the box is
\* empty
BoundsRect(b) ==
    [none |-> b.left >= b.right \/ b.top >= b.bottom,
     w |-> b.right - b.left, h |-> b.bottom - b.top]

\* The rectangle a cache miss asks the atlas for: none for whitespace
\* (lines 1145-1158), the scaled cell for built-in glyphs (lines 1218-1228)
GlyphRect(font, lr, face, glyphIndex) ==
    IF face = 0
    THEN [none |-> FALSE,
          w |-> font.cellW * (IF IsDoubleWidth(lr) THEN 2 ELSE 1),
          h |-> font.cellH * (IF IsDoubleHeight(lr) THEN 2 ELSE 1)]
    ELSE BoundsRect(GlyphWorldBounds(font, lr, glyphIndex))

\* _drawGlyphAllocateEntry (lines 1362-1367): a fresh entry is Default
DefaultEntry ==
    [shadingType |-> "Default", overlapSplit |-> FALSE,
     offset |-> << 0, 0 >>, size |-> << 0, 0 >>, texcoord |-> << 0, 0 >>]

\* A plausible slip: the width of the glyph is not looked at.
RasterizedEntry_NoWidthTest(font, lr, face, glyphIndex, rx, ry) ==
    LET r == GlyphRect(font, lr, face, glyphIndex)
        b == GlyphWorldBounds(font, lr, glyphIndex)
        scale == IF IsDoubleWidth(lr) THEN 1 ELSE 0
        triggerLeft == Shl32(ligatureOverhangTrigger[1], scale)
        triggerRight == Shl32(ligatureOverhangTrigger[2], scale)
        heightScale == IF IsDoubleHeight(lr) THEN 2 ELSE 1
    IN IF face = 0
       THEN [shadingType |-> IF IsSoftFontChar(glyphIndex)
                             THEN DrawSoftFontGlyph(font, glyphIndex, "none").shadingType
                             ELSE "TextBuiltinGlyph",
             overlapSplit |-> FALSE,
             offset |-> << 0, -(font.baseline * heightScale) >>,
             size |-> << r.w, r.h >>, texcoord |-> << rx, ry >>]
       ELSE [shadingType |-> textShadingType,
             overlapSplit |-> b.left <= triggerLeft \/ b.right >= triggerRight,
             offset |-> << b.left, b.top >>,
             size |-> << r.w, r.h >>, texcoord |-> << rx, ry >>]


\* The entry written after rasterization, before any double-height split
\* (lines 1193-1205 for font glyphs, 1263-1271 for built-in glyphs); it is
\* written only when the drawing returned
RasterizedEntry(font, lr, face, glyphIndex, rx, ry) ==
    LET r == GlyphRect(font, lr, face, glyphIndex)
        b == GlyphWorldBounds(font, lr, glyphIndex)
        scale == IF IsDoubleWidth(lr) THEN 1 ELSE 0
        triggerLeft == Shl32(ligatureOverhangTrigger[1], scale)
        triggerRight == Shl32(ligatureOverhangTrigger[2], scale)
        heightScale == IF IsDoubleHeight(lr) THEN 2 ELSE 1
    IN IF face = 0
       THEN [shadingType |-> IF IsSoftFontChar(glyphIndex)
                             THEN DrawSoftFontGlyph(font, glyphIndex, "none").shadingType
                             ELSE "TextBuiltinGlyph",
             overlapSplit |-> FALSE,
             offset |-> << 0, -(font.baseline * heightScale) >>,
             size |-> << r.w, r.h >>, texcoord |-> << rx, ry >>]
       ELSE [shadingType |-> textShadingType,
             overlapSplit |-> r.w >= font.cellW
                              /\ (b.left <= triggerLeft \/ b.right >= triggerRight),
             offset |-> << b.left, b.top >>,
             size |-> << r.w, r.h >>, texcoord |-> << rx, ry >>]

\* A plausible slip: the split point is not clamped to the glyph.
SplitDoubleHeightGlyph_NoClamp(font, e) ==
    LET offY == e.offset[2] - font.descender
        topSize == -offY - font.baseline
        bottomSize == Max(0, e.size[2] - topSize)
    IN [top |-> [e EXCEPT !.offset = << e.offset[1], offY + font.cellH >>,
                          !.size = << e.size[1], topSize >>,
                          !.shadingType = IF topSize = 0 THEN "Default" ELSE @],
        bottom |-> [e EXCEPT !.offset = << e.offset[1], offY + topSize >>,
                             !.size = << e.size[1], bottomSize >>,
                             !.texcoord = << e.texcoord[1], e.texcoord[2] + topSize >>,
                             !.shadingType = IF bottomSize = 0 THEN "Default" ELSE @]]

\* A plausible slip: an empty half keeps the shading type of the glyph.
SplitDoubleHeightGlyph_KeepShading(font, e) ==
    LET offY == e.offset[2] - font.descender
        topSize == Clamp(-offY - font.baseline, 0, e.size[2])
        bottomSize == Max(0, e.size[2] - topSize)
    IN [top |-> [e EXCEPT !.offset = << e.offset[1], offY + font.cellH >>,
                          !.size = << e.size[1], topSize >>],
        bottom |-> [e EXCEPT !.offset = << e.offset[1], offY + topSize >>,
                             !.size = << e.size[1], bottomSize >>,
                             !.texcoord = << e.texcoord[1], e.texcoord[2] + topSize >>]]


\* _splitDoubleHeightGlyph (lines 1373-1404): the two halves of an entry
SplitDoubleHeightGlyph(font, e) ==
    LET offY == e.offset[2] - font.descender
        topSize == Clamp(-offY - font.baseline, 0, e.size[2])
        bottomSize == Max(0, e.size[2] - topSize)
    IN [top |-> [e EXCEPT !.offset = << e.offset[1], offY + font.cellH >>,
                          !.size = << e.size[1], topSize >>,
                          !.shadingType = IF topSize = 0 THEN "Default" ELSE @],
        bottom |-> [e EXCEPT !.offset = << e.offset[1], offY + topSize >>,
                             !.size = << e.size[1], bottomSize >>,
                             !.texcoord = << e.texcoord[1], e.texcoord[2] + topSize >>,
                             !.shadingType = IF bottomSize = 0 THEN "Default" ELSE @]]

\* A plausible slip: a double-height rasterization also files the whole
\* glyph under the single-width key, over whatever is there.
InsertedEntries_AlsoSingleWidth(font, lr, face, glyphIndex, rx, ry) ==
    LET e == RasterizedEntry(font, lr, face, glyphIndex, rx, ry)
        halves == SplitDoubleHeightGlyph(font, e)
    IN IF IsDoubleHeight(lr)
       THEN (<< face, "DoubleHeightTop", glyphIndex >> :> halves.top)
            @@ (<< face, "DoubleHeightBottom", glyphIndex >> :> halves.bottom)
            @@ (<< face, "SingleWidth", glyphIndex >> :> e)
       ELSE (<< face, lr, glyphIndex >> :> e)

\* A plausible slip: only the half of the row being drawn is filed.
InsertedEntries_OwnHalfOnly(font, lr, face, glyphIndex, rx, ry) ==
    LET e == RasterizedEntry(font, lr, face, glyphIndex, rx, ry)
        halves == SplitDoubleHeightGlyph(font, e)
    IN IF IsDoubleHeight(lr)
       THEN (<< face, lr, glyphIndex >> :>
               IF lr = "DoubleHeightTop" THEN halves.top ELSE halves.bottom)
       ELSE (<< face, lr, glyphIndex >> :> e)


\* The cache entries a rasterization inserts: the glyph's own key and, on a
\* double-height row, the key of the other half (lines 1197-1210, 1263-1276)
InsertedEntries(font, lr, face, glyphIndex, rx, ry) ==
    LET e == RasterizedEntry(font, lr, face, glyphIndex, rx, ry)
        halves == SplitDoubleHeightGlyph(font, e)
    IN IF IsDoubleHeight(lr)
       THEN (<< face, "DoubleHeightTop", glyphIndex >> :> halves.top)
            @@ (<< face, "DoubleHeightBottom", glyphIndex >> :> halves.bottom)
       ELSE (<< face, lr, glyphIndex >> :> e)

(***************************************************************************)
(* Stamping a glyph into the cell grid (_drawText, lines 894-915)           *)
(***************************************************************************)
\* row->glyphAdvances[x]: one advance width per cell the glyph covers
GlyphAdvance(font, g) == IF g[1] # 0 /\ g[2] = 3 THEN 2 * font.advanceWidth
                         ELSE font.advanceWidth

RECURSIVE BaselineX(_, _, _)
BaselineX(font, glyphs, n) ==
    IF n = 0 THEN 0
    ELSE BaselineX(font, glyphs, n - 1) + GlyphAdvance(font, glyphs[n])

\* lines 837, 847-851 and 898, 901: t, the top of the ink of entry e on the
\* row with 0-based index y0
GlyphTop(font, lr, y0, glyphOffset, e) ==
    LET scaleY == IF IsDoubleHeight(lr) THEN 2 ELSE 1
    IN (y0 * font.cellH + font.baseline) - glyphOffset[2] * scaleY + e.offset[2]

\* lines 845-857 and 897-906: the index << cx, cy >> of the cell written
\* for an entry e on the row with 0-based index y0, the pen at baselineX
\* and the shaping offsets glyphOffset = << advanceOffset, ascenderOffset >>.
\* On a double-height row baselineY is halved and the difference scaled by
\* two, which leaves baselineY and doubles the ascender offset.  cx and cy
\* are signed divisions of a til::CoordType by the cell size.
CellIndex(font, lr, y0, baselineX, glyphOffset, e) ==
    LET scaleX == IF IsDoubleWidth(lr) THEN 2 ELSE 1
        l == (baselineX + glyphOffset[1]) * scaleX + e.offset[1]
        t == GlyphTop(font, lr, y0, glyphOffset, e)
    IN << CDiv(l + font.cellW \div 2, font.cellW),
          CDiv(t + font.cellH \div 2, font.cellH) >>

\* row->glyphOffsets[x]: no offsets where the shaping moved no glyph
GlyphOffset(row, x) ==
    IF "glyphOffsets" \in DOMAIN row THEN row.glyphOffsets[x] ELSE << 0, 0 >>

\* The cell a glyph entry is recorded in: << cx, cy >>, for the glyph at
\* position x of the y-th row
StampCell(font, row, y, x, e) ==
    CellIndex(font, row.lineRendition, y - 1,
              BaselineX(font, row.glyphs, x - 1), GlyphOffset(row, x), e)

\* The index lies inside Cell _cells[30][120]
InGrid(c) ==
    /\ 0 <= c[1] /\ c[1] < GridColumns
    /\ 0 <= c[2] /\ c[2] < GridRows

\* _cells[cy][cx] (lines 908-909) addresses the Cell at cy * 120 + cx from
\* the start of the array
FlatIndex(c) == c[2] * GridColumns + c[1]

InArray(c) == 0 <= FlatIndex(c) /\ FlatIndex(c) < GridRows * GridColumns

\* The cell of the grid that the write to _cells[cy][cx] changes: none
\* when the address lies outside the array
WrittenCells(c) ==
    IF InArray(c)
    THEN { << FlatIndex(c) % GridColumns, FlatIndex(c) \div GridColumns >> }
    ELSE {}

\* How the write of lines 908-909 for entry e ends.  The index is not
\* checked against the array: a write outside it changes whatever lies
\* there and the text pass goes on ("written"), or it ends the process
\* ("crashed").
StampEnds(font, row, y, x, e) ==
    IF e.shadingType = "Default" \/ InArray(StampCell(font, row, y, x, e))
    THEN {"written"}
    ELSE {"written", "crashed"}

\* A plausible slip: the shading type is not looked at before stamping.
Stamped_Always(grid, font, row, y, x, e) ==
    [c \in WrittenCells(StampCell(font, row, y, x, e)) |-> e.texcoord] @@ grid


\* The grid after the glyph at (row y, position x) with entry e was handled
Stamped(grid, font, row, y, x, e) ==
    IF e.shadingType = "Default" THEN grid
    ELSE [c \in WrittenCells(StampCell(font, row, y, x, e)) |-> e.texcoord] @@ grid

\* The indices computed for the writes of a Render, the one for entry e
\* among them
WriteObserved(h, font, row, y, x, e) ==
    IF e.shadingType = "Default" THEN h
    ELSE [h EXCEPT !.written = @ \cup {StampCell(font, row, y, x, e)}]

(***************************************************************************)
(* The time handed to the custom shader (lines 425-427 and 1755-1756).     *)
(* The performance counter and the modulus are 64-bit integers: they are   *)
(* kept as four 16-bit limbs, least significant first.                     *)
(***************************************************************************)
LimbBase == 65536

\* A non-negative int as a 64-bit value
ToBig(n) == << n % LimbBase, (n \div LimbBase) % LimbBase, 0, 0 >>

\* a < b
BigLess(a, b) ==
    \E i \in 1..4 : a[i] < b[i] /\ \A j \in (i + 1)..4 : a[j] = b[j]

\* a + b modulo 2^64
BigAdd(a, b) ==
    LET c1 == (a[1] + b[1]) \div LimbBase
        c2 == (a[2] + b[2] + c1) \div LimbBase
        c3 == (a[3] + b[3] + c2) \div LimbBase
    IN << (a[1] + b[1]) % LimbBase, (a[2] + b[2] + c1) % LimbBase,
          (a[3] + b[3] + c2) % LimbBase, (a[4] + b[4] + c3) % LimbBase >>

\* a - b for a >= b
BigSub(a, b) ==
    LET w1 == IF a[1] < b[1] THEN 1 ELSE 0
        w2 == IF a[2] < b[2] + w1 THEN 1 ELSE 0
        w3 == IF a[3] < b[3] + w2 THEN 1 ELSE 0
    IN << (a[1] - b[1]) % LimbBase, (a[2] - b[2] - w1) % LimbBase,
          (a[3] - b[3] - w2) % LimbBase, (a[4] - b[4] - w3) % LimbBase >>

\* a * k for a small k (k * 65536 stays below 2^31)
BigMulSmall(a, k) ==
    LET m1 == a[1] * k
        m2 == a[2] * k + m1 \div LimbBase
        m3 == a[3] * k + m2 \div LimbBase
        m4 == a[4] * k + m3 \div LimbBase
    IN << m1 % LimbBase, m2 % LimbBase, m3 % LimbBase, m4 % LimbBase >>

\* What a * k loses above 64 bits
BigMulCarry(a, k) ==
    (a[4] * k + (a[3] * k + (a[2] * k + (a[1] * k) \div LimbBase) \div LimbBase)
                    \div LimbBase) \div LimbBase

\* a * 65536, for a below 2^48
BigShift(a) == << 0, a[1], a[2], a[3] >>

\* r reduced by b * 2^k, b * 2^(k-1), ..., b: r % b for r < b * 2^(k+1)
RECURSIVE BigReduce(_, _, _)
BigReduce(r, b, k) ==
    IF k < 0 THEN r
    ELSE LET m == BigMulSmall(b, Pow2(k))
             over == BigMulCarry(b, Pow2(k)) > 0
         IN IF over \/ BigLess(r, m)
            THEN BigReduce(r, b, k - 1)
            ELSE BigReduce(BigSub(r, m), b, k - 1)

\* a % b for 0 <= a < 2^63 and b > 0, by long division on the limbs
RECURSIVE BigMod(_, _)
BigMod(a, b) ==
    IF BigLess(a, b) THEN a
    ELSE BigReduce(IF b[4] = 0 THEN BigMod(a, BigShift(b)) ELSE a, b, 15)

\* static_cast<int> of a 64-bit value: its low 32 bits as a two's
\* complement number
TruncInt(a) ==
    IF a[2] >= LimbBase \div 2
    THEN (a[2] - LimbBase) * LimbBase + a[1]
    ELSE a[2] * LimbBase + a[1]

\* The value fits a 32-bit signed integer
FitsInt(a) == a[4] = 0 /\ a[3] = 0 /\ a[2] < LimbBase \div 2

\* queryPerfFreq() (lines 51-56): counts per second, fixed at boot.  1 kHz
\* and 1 MHz timers, the 3.579545 MHz ACPI timer and the 10 MHz counter
PerfFrequencies == {1000, 1000000, 3579545, 10000000}

\* The frequency of the machine where no other is said: the 10 MHz counter
PerfFrequency == 10000000

\* queryPerfCount(): 64-bit counter values, from 0 to 2^63 - 1, among them
\* 3,000,000,000 (five minutes of a 10 MHz counter)
PerfCounts ==
    { << a, b, c, d >> : a \in {0, 1, 65535}, b \in {0, 32768, 65535},
                         c \in {0, 2}, d \in {0, 32767} }
      \cup { << 24064, 45776, 0, 0 >> }

\* A reading of the counter: 3,000,000,000, five minutes of a 10 MHz counter
PerfCountNow == << 24064, 45776, 0, 0 >>

\* lines 425-426: _customShaderPerfTickMod
CustomShaderPerfTickMod(freq) == BigMulSmall(ToBig(freq), 1000)

\* lines 1755-1756: the counter modulo _customShaderPerfTickMod, narrowed to
\* int.  The time is this number of ticks times 1.0f / freq seconds; the
\* model keeps the ticks and the frequency instead of the rounded product.
CustomShaderTicks(now, mod) == TruncInt(BigMod(now, mod))

(***************************************************************************)
(* Initial state: a freshly constructed backend and a first payload        *)
(***************************************************************************)
NoSnapshot == [valid |-> FALSE]

\* The stamps of a backend that has adopted nothing yet (lines 103-109 and
\* the member initialisers)
NoStamps ==
    [generation |-> 0, fontGeneration |-> 0, miscGeneration |-> 0,
     targetSize |-> [x |-> 0, y |-> 0], viewportCellCount |-> [x |-> 0, y |-> 0]]

\* What is observed of the settings update of a Render: whether it ran and
\* came through, which stamps differed at its start, which recreations it
\* entered, and the stamps before it
NoUpdate == [ran |-> FALSE, ok |-> TRUE, font |-> FALSE, misc |-> FALSE,
             bitmap |-> FALSE, genDiff |-> FALSE, fontDiff |-> FALSE,
             miscDiff |-> FALSE, cellDiff |-> FALSE, before |-> NoStamps,
             warnings |-> 0]

\* _d2dRenderTarget when it is null (before the first resize, or released
\* and not created again), and a render target just created
NoRenderTarget == [exists |-> FALSE, drawing |-> FALSE]

NewRenderTarget == [exists |-> TRUE, drawing |-> FALSE]

NoRequest == [kind |-> "none", w |-> 0, h |-> 0, attempts |-> 0, resets |-> 0]

\* The colours of _cells before the first Render: no frame's
NoCellColors == [colors |-> 0, inside |-> 0, behind |-> 0]

\* What a read past the end of the payload's colour buffers may find: memory
\* of the process that is not the buffers', told apart by what it holds
MemoryBehind == {77, 78}

\* The same memory behind the buffers at every Render
SameMemoryBehind == {77}

\* _drawBackground (lines 801-819) on colour buffers of one element per
\* viewport cell: the loop reads the elements 0 .. GridRows * GridColumns - 1
\* whatever the viewport is.  From buffers that long every cell gets an
\* element of the buffers (inside = all of them).  With shorter buffers the
\* reads past the end fault (crashed), or they find the memory behind the
\* buffers (one of memory), which then fills the cells from index inside on.
DrawBackgroundOutcomes(cellCount, memory) ==
    IF cellCount.x * cellCount.y >= GridColumns * GridRows
    THEN { [crashed |-> FALSE, inside |-> GridColumns * GridRows, behind |-> 0] }
    ELSE { [crashed |-> TRUE, inside |-> 0, behind |-> 0] }
         \cup { [crashed |-> FALSE, inside |-> cellCount.x * cellCount.y,
                 behind |-> m] : m \in memory }

SizingInit == [stage |-> "off", cellW |-> 0, cellH |-> 0, targetW |-> 0,
               targetH |-> 0, packW |-> 0, packH |-> 0, area |-> 0, u |-> 0, v |-> 0]

\* The split taken alone, before any input is drawn
SplitInit == [stage |-> "off"]


\* til::rect{}: the dirty rectangle of a payload nothing was reported in
NoDirtyRect == [left |-> 0, top |-> 0, right |-> 0, bottom |-> 0]

\* lines 833-834: the locals of _drawText before the first row
NoDirtySpan == [top |-> CoordTypeMax, bottom |-> CoordTypeMin]

\* _drawBackground, _drawGridlines and the dispatch taken alone, before any
\* input is drawn
BackgroundInit == [stage |-> "off"]

GridlinesInit == [stage |-> "off"]

DispatchInit == [stage |-> "off"]

CurlyInit == [stage |-> "off"]

\* No shader was installed and no time computed yet
ShaderTimeInit == [stage |-> "off", freq |-> PerfFrequency, mod |-> ToBig(0),
                   now |-> ToBig(0), rem |-> ToBig(0), ticks |-> 0]

ColorInit == [stage |-> "off"]

\* The dirty tracking before any Render
DirtyInit == [invalidatedRows |-> {}, given |-> NoDirtyRect, rect |-> NoDirtyRect,
              rows |-> << >>, acc |-> NoDirtySpan]

\* The observer's record before any Render
NoHistory == [renders |-> 0, outcome |-> "none", upd |-> NoUpdate,
              nReset |-> 0, nAlloc |-> 0, nRaster |-> 0, nLookup |-> 0,
              nDispatch |-> 0, nResize |-> 0, overflow |-> FALSE,
              justReset |-> FALSE,
              replacedOpen |-> FALSE, drawnOutside |-> FALSE,
              beganTwice |-> FALSE, written |-> {},
              again |-> FALSE, repeat |-> FALSE, last |-> NoSnapshot,
              prev |-> NoSnapshot]

BackendInit ==
    /\ generation = 0
    /\ fontGeneration = 0
    /\ miscGeneration = 0
    /\ targetSize = [x |-> 0, y |-> 0]
    /\ viewportCellCount = [x |-> 0, y |-> 0]
    /\ renderTargetView = FALSE
    /\ customRenderTargetView = FALSE
    /\ customOffscreenTexture = FALSE
    /\ customPixelShader = FALSE
    /\ requiresContinuousRedraw = FALSE
    /\ backgroundBitmap = FALSE
    /\ fontChangedResetGlyphAtlas = FALSE
    /\ textShadingType = "Default"
    /\ ligatureOverhangTrigger = << 0, 0 >>
    /\ glyphAtlas = [u |-> 0, v |-> 0]
    /\ rectPacker = stbrp_init_target(0, 0)
    /\ rectPackerData = 0
    /\ d2dBeganDrawing = FALSE
    /\ d2dRenderTarget = NoRenderTarget
    /\ glyphAtlasMap = EmptyMap
    /\ glyphAtlasBitmaps = EmptyMap
    /\ cellColors = NoCellColors
    /\ cells = EmptyMap
    /\ pc = "idle"
    /\ rowY = 1
    /\ glyphX = 1
    /\ req = NoRequest
    /\ hist = NoHistory

Init ==
    /\ \E f \in PlainFonts, vp \in PlainViewports :
          p = [gen |-> 1, fontGen |-> 1, miscGen |-> 1, font |-> f, misc |-> "none",
               targetSize |-> ViewportMenu[vp].targetSize,
               viewportCellCount |-> ViewportMenu[vp].viewportCellCount,
               frame |-> 1, softFontChars |-> 0]
    /\ BackendInit
    /\ mergeSide = "open"
    /\ sizing = SizingInit
    /\ split = SplitInit
    /\ dirty = DirtyInit
    /\ background = BackgroundInit
    /\ gridlines = GridlinesInit
    /\ dispatch = DispatchInit
    /\ curly = CurlyInit
    /\ shaderTime = ShaderTimeInit
    /\ color = ColorInit

(***************************************************************************)
(* Render, step by step                                                    *)
(***************************************************************************)
\* What is remembered of a Render that returned normally
Snapshot(h) ==
    [valid |-> TRUE, cells |-> cells, cellColors |-> cellColors,
     overflow |-> h.overflow]

\* Render returned normally
Returned(h) == [h EXCEPT !.outcome = "ok", !.justReset = FALSE,
                         !.again = TRUE, !.last = Snapshot(h),
                         !.prev = IF h.repeat THEN h.last ELSE NoSnapshot]

\* Render ended with an error
Thrown(h, what) == [h EXCEPT !.outcome = what, !.justReset = FALSE,
                             !.again = FALSE, !.last = NoSnapshot,
                             !.prev = NoSnapshot]

\* The caller did something other than calling Render again
Touched(h) == [NoHistory EXCEPT !.renders = h.renders]

(***************************************************************************)
(* The offscreen drawing session (lines 553-569, 628-646)                  *)
(***************************************************************************)
\* _d2dBeginDrawing (lines 553-560): BeginDraw unless the flag says a
\* session is open.  began is the flag afterwards, target the render
\* target afterwards, issued whether BeginDraw was called and returned,
\* crashed whether it was called through a null _d2dRenderTarget (line
\* 557), which ends the process before the flag is set.
D2dBeginDrawing(began, rt) ==
    IF began
    THEN [began |-> TRUE, target |-> rt, issued |-> FALSE, crashed |-> FALSE]
    ELSE IF ~rt.exists
    THEN [began |-> FALSE, target |-> rt, issued |-> FALSE, crashed |-> TRUE]
    ELSE [began |-> TRUE, target |-> [rt EXCEPT !.drawing = TRUE],
          issued |-> TRUE, crashed |-> FALSE]

\* _d2dEndDrawing (lines 562-569) when EndDraw succeeds
D2dEndDrawing(began, rt) ==
    IF began
    THEN [began |-> FALSE, target |-> [rt EXCEPT !.drawing = FALSE]]
    ELSE [began |-> began, target |-> rt]

\* How _d2dEndDrawing ends (lines 562-569): nothing is called unless the
\* flag says a session is open; EndDraw is called through a null
\* _d2dRenderTarget; EndDraw succeeds; or EndDraw fails and line 566 raises
\* with the flag still set
EndDrawResults(began, rt) ==
    IF ~began THEN {"ok"}
    ELSE IF ~rt.exists THEN {"crashed"}
    ELSE {"ok", "failed"}

\* The render target after an EndDraw that failed: whether a BeginDraw is
\* still outstanding on it is Direct2D's to decide
EndDrawFailed(rt) == { [rt EXCEPT !.drawing = d] : d \in {FALSE, rt.drawing} }

\* _resizeGlyphAtlas (lines 641-672): _d2dRenderTarget is released and a new
\* render target created on the new texture; nothing is outstanding on it
ResizedRenderTarget(rt, resized) == IF resized THEN NewRenderTarget ELSE rt

\* The calls of _resizeGlyphAtlas that can fail and raise: CreateTexture2D
\* (line 658), CreateDxgiSurfaceRenderTarget (line 670; a failure of
\* CreateShaderResourceView, line 659, leaves the same state), and
\* CreateSolidColorBrush (lines 699-700; a failed allocation of the node
\* storage, line 706, leaves the same state)
ResizeFailPoints == {"none", "glyphAtlas", "d2dRenderTarget", "brush"}

\* _resizeGlyphAtlas (lines 634-707) for the size (u, v), failing at fail:
\* the texture and the render target are released first, the packer's node
\* storage is replaced last
ResizeGlyphAtlas(data, u, v, fail) ==
    CASE fail = "glyphAtlas" ->
           [glyphAtlas |-> [u |-> 0, v |-> 0], target |-> NoRenderTarget,
            rectPackerData |-> data, failed |-> TRUE]
      [] fail = "d2dRenderTarget" ->
           [glyphAtlas |-> [u |-> u, v |-> v], target |-> NoRenderTarget,
            rectPackerData |-> data, failed |-> TRUE]
      [] fail = "brush" ->
           [glyphAtlas |-> [u |-> u, v |-> v], target |-> NewRenderTarget,
            rectPackerData |-> data, failed |-> TRUE]
      [] OTHER ->
           [glyphAtlas |-> [u |-> u, v |-> v], target |-> NewRenderTarget,
            rectPackerData |-> u, failed |-> FALSE]

\* _resetGlyphAtlas (lines 571-632) as a whole, r being what it computes
\* when nothing fails: result "failed" when the resize raises (packer,
\* glyph containers, flag and session untouched), "crashed" when no resize
\* is needed and _d2dRenderTarget is null, so that line 628 or 629 calls
\* through a null pointer, "ok" otherwise
ResetOutcome(r, began, rt, fail) ==
    IF r.resized /\ fail # "none"
    THEN LET z == ResizeGlyphAtlas(rectPackerData, r.glyphAtlas.u, r.glyphAtlas.v, fail)
         IN [result |-> "failed", glyphAtlas |-> z.glyphAtlas,
             rectPacker |-> rectPacker, rectPackerData |-> z.rectPackerData,
             glyphAtlasMap |-> glyphAtlasMap, began |-> began, target |-> z.target]
    ELSE LET t == ResizedRenderTarget(rt, r.resized)
             b == D2dBeginDrawing(began, t)
         IN IF ~t.exists
            THEN [result |-> "crashed", glyphAtlas |-> r.glyphAtlas,
                  rectPacker |-> r.rectPacker, rectPackerData |-> r.rectPackerData,
                  glyphAtlasMap |-> r.glyphAtlasMap, began |-> b.began, target |-> t]
            ELSE [result |-> "ok", glyphAtlas |-> r.glyphAtlas,
                  rectPacker |-> r.rectPacker, rectPackerData |-> r.rectPackerData,
                  glyphAtlasMap |-> r.glyphAtlasMap, began |-> b.began,
                  target |-> b.target]

\* What the observer notes of a reset run with flag began and render target
\* rt: the target replaced under an open session, BeginDraw issued on a
\* target with one outstanding, Clear called with none outstanding
ResetObserved(h, began, rt, resized) ==
    LET b == D2dBeginDrawing(began, ResizedRenderTarget(rt, resized))
    IN [h EXCEPT !.replacedOpen = @ \/ (resized /\ rt.drawing),
                 !.beganTwice = @ \/ (b.issued /\ ResizedRenderTarget(rt, resized).drawing),
                 !.drawnOutside = @ \/ ~b.target.drawing]

\* What the observer notes of the handling of a glyph after
\* _d2dBeginDrawing (lines 1161, 1231): BeginDraw issued on a target with
\* one outstanding and, when drawing calls were made on the render target
\* (draws), whether none was outstanding then
DrawObserved(h, began, rt, draws) ==
    LET b == D2dBeginDrawing(began, rt)
    IN [h EXCEPT !.beganTwice = @ \/ (b.issued /\ rt.drawing),
                 !.drawnOutside = @ \/ (draws /\ ~b.target.drawing)]

(***************************************************************************)
(* Dirty tracking (_drawText lines 833-834, 903-904, 927-940 and            *)
(* _executeCustomShader line 1803)                                          *)
(***************************************************************************)
\* p.invalidatedRows.contains(y) for the y-th row counted from 1: the range
\* holds the 0-based rows from start up to, not including, end
RangeContains(r, y) == r.start <= y - 1 /\ y - 1 < r.end

\* The spans the caller hands in with the rows of a frame: each row's own
\* line of cells, or nothing, so that a row's span is that of its ink
RowSpans(font, rows, kind) ==
    [y \in 1..Len(rows) |->
        IF kind = "cells"
        THEN [top |-> (y - 1) * font.cellH, bottom |-> y * font.cellH]
        ELSE NoDirtySpan]

\* What a caller passes besides the rows: the invalidated rows and the dirty
\* rectangle so far.  Every row invalidated and no rectangle yet,
DirtyGiven == [range |-> [start |-> 0, end |-> 2], rect |-> NoDirtyRect,
               spans |-> "cells"]

\* A dirty rectangle inside the first cell
SmallDirtyRect == [left |-> 2, top |-> 20, right |-> 5, bottom |-> 24]

\* or any of these: every row, no row, the first row or the second row
\* invalidated, with no rectangle yet or with a rectangle inside the first
\* cell, and with row spans of either kind
DirtyMenu ==
    { DirtyGiven,
      [range |-> [start |-> 1, end |-> 1], rect |-> SmallDirtyRect, spans |-> "cells"],
      [range |-> [start |-> 0, end |-> 1], rect |-> SmallDirtyRect, spans |-> "ink"],
      [range |-> [start |-> 1, end |-> 2], rect |-> NoDirtyRect, spans |-> "ink"],
      [range |-> [start |-> 1, end |-> 2], rect |-> SmallDirtyRect, spans |-> "cells"],
      [range |-> [start |-> 0, end |-> 2], rect |-> SmallDirtyRect, spans |-> "ink"] }

\* lines 896-904: the spans after the glyph with entry e was handled on row y
RowDirtied(rows, font, row, y, x, e) ==
    IF e.shadingType = "Default" THEN rows
    ELSE LET t == GlyphTop(font, row.lineRendition, y - 1, GlyphOffset(row, x), e)
         IN [rows EXCEPT ![y] = [top |-> Min(@.top, t),
                                 bottom |-> Max(@.bottom, t + e.size[2])]]

\* A plausible slip: every row is accumulated, invalidated or not.
RowAccumulated_AllRows(acc, range, span, y) ==
    [top |-> Min(acc.top, span.top), bottom |-> Max(acc.bottom, span.bottom)]

\* lines 927-931: dirtyTop and dirtyBottom after row y with the span given
RowAccumulated(acc, range, span, y) ==
    IF RangeContains(range, y)
    THEN [top |-> Min(acc.top, span.top), bottom |-> Max(acc.bottom, span.bottom)]
    ELSE acc

\* lines 936-940: p.dirtyRectInPx after the last row
TextDirtyRect(rect, acc) ==
    IF acc.top < acc.bottom
    THEN [rect EXCEPT !.top = Min(@, acc.top), !.bottom = Max(@, acc.bottom)]
    ELSE rect

\* A plausible slip: the post-process pass leaves the rectangle alone.
PostProcessDirtyRect_Keep(rect, size) == rect

\* line 1803: p.dirtyRectInPx after the post-process pass
PostProcessDirtyRect(rect, size) ==
    [left |-> 0, top |-> 0, right |-> size.x, bottom |-> size.y]

\* Render (lines 111-128), called with the frame's rows in the payload: the
\* settings update when the generation differs, then _drawBackground
\* (lines 801-819), which rewrites every cell from the payload's colour
\* buffers and from what lies behind them, or faults on the way (the
\* process ends).  The frame and the caller's
\* dirty tracking come from the sets given and are the payload's whether
\* or not the settings update fails; memory is what may lie behind the
\* colour buffers.  The locals of the text pass of the
\* Render before (row, glyph, rectangle asked for) are gone.
RenderUpTo(frames, dirtyInputs, memory, maxRenders) ==
    /\ pc = "idle"
    /\ hist.renders < maxRenders
    /\ \E fr \in frames, d \in dirtyInputs,
          s \in IF SettingsChanged THEN UpdateOutcomes ELSE {SettingsState},
          bg \in DrawBackgroundOutcomes(p.viewportCellCount, memory) :
         LET run == SettingsChanged
             stamps == IF run THEN AdoptedStamps(s) ELSE CurrentStamps
             h == [hist EXCEPT !.renders = @ + 1, !.outcome = "running",
                               !.repeat = hist.again /\ fr = p.frame,
                               !.prev = NoSnapshot,
                               !.upd = [ran |-> run, ok |-> ~s.failed, font |-> s.font,
                                        misc |-> s.misc, bitmap |-> s.bitmap,
                                        genDiff |-> generation # p.gen,
                                        fontDiff |-> fontGeneration # p.fontGen,
                                        miscDiff |-> miscGeneration # p.miscGen,
                                        cellDiff |-> viewportCellCount # p.viewportCellCount,
                                        before |-> CurrentStamps,
                                        warnings |-> s.warnings],
                               !.nReset = 0, !.nAlloc = 0, !.nRaster = 0,
                               !.nLookup = 0, !.nDispatch = 0, !.nResize = 0,
                               !.overflow = FALSE,
                               !.replacedOpen = FALSE, !.drawnOutside = FALSE,
                               !.beganTwice = FALSE, !.written = {},
                               !.justReset = FALSE]
         IN /\ renderTargetView' = s.renderTargetView
            /\ customRenderTargetView' = s.customRenderTargetView
            /\ customOffscreenTexture' = s.customOffscreenTexture
            /\ customPixelShader' = s.customPixelShader
            /\ requiresContinuousRedraw' = s.requiresContinuousRedraw
            /\ backgroundBitmap' = s.backgroundBitmap
            /\ fontChangedResetGlyphAtlas' = s.fontChangedResetGlyphAtlas
            /\ textShadingType' = s.textShadingType
            /\ ligatureOverhangTrigger' = s.ligatureOverhangTrigger
            /\ generation' = stamps.generation
            /\ fontGeneration' = stamps.fontGeneration
            /\ miscGeneration' = stamps.miscGeneration
            /\ targetSize' = stamps.targetSize
            /\ viewportCellCount' = stamps.viewportCellCount
            /\ IF s.failed
               THEN /\ pc' = "idle"
                    /\ hist' = Thrown(h, "updateFailed")
                    /\ UNCHANGED << cellColors, cells >>
               ELSE IF bg.crashed
               THEN /\ pc' = "crashed"
                    /\ hist' = Thrown(h, "crashed")
                    /\ UNCHANGED << cellColors, cells >>
               ELSE /\ pc' = "drawText"
                    /\ hist' = h
                    /\ cellColors' = [colors |-> FrameMenu[fr].colors,
                                       inside |-> bg.inside, behind |-> bg.behind]
                    /\ cells' = EmptyMap
            /\ shaderTime' = [ShaderTimeInit EXCEPT
                                !.freq = shaderTime.freq,
                                !.mod = IF s.tickMod
                                        THEN CustomShaderPerfTickMod(shaderTime.freq)
                                        ELSE shaderTime.mod]
            /\ p' = [p EXCEPT !.frame = fr]
            /\ dirty' = [invalidatedRows |-> d.range, given |-> d.rect,
                         rect |-> d.rect,
                         rows |-> RowSpans(Font, FrameMenu[fr].rows, d.spans),
                         acc |-> NoDirtySpan]
    /\ rowY' = 1
    /\ glyphX' = 1
    /\ req' = NoRequest
    /\ UNCHANGED << atlasVars, mergeSide, sizing, split, background, gridlines,
                    dispatch, curly, color >>

\* Render of a caller that invalidates every row
RenderWith(frames, dirtyInputs) ==
    RenderUpTo(frames, dirtyInputs, MemoryBehind, MaxRenders)

RenderBegin == RenderWith(PlainFrames, {DirtyGiven})

\* Render of a caller that invalidates some rows
RenderBeginDirty ==
    RenderUpTo(PlainFrames, DirtyMenu, SameMemoryBehind, MaxRenders)

\* Render of a frame with soft-font characters
RenderBeginSoftFont == RenderWith(SoftFontFrames, {DirtyGiven})

\* _drawText (lines 828-836): the deferred atlas reset, the empty dirty
\* span, then the first row.  The calls of a resize may fail.
DrawTextBegin ==
    /\ pc = "drawText"
    /\ IF fontChangedResetGlyphAtlas
       THEN \E fail \in IF ResetGlyphAtlas.resized THEN ResizeFailPoints ELSE {"none"} :
            LET r == ResetGlyphAtlas
                o == ResetOutcome(r, d2dBeganDrawing, d2dRenderTarget, fail)
            IN /\ glyphAtlas' = o.glyphAtlas
               /\ rectPacker' = o.rectPacker
               /\ rectPackerData' = o.rectPackerData
               /\ glyphAtlasMap' = o.glyphAtlasMap
               /\ d2dBeganDrawing' = o.began
               /\ d2dRenderTarget' = o.target
               /\ IF o.result = "ok"
                  THEN /\ fontChangedResetGlyphAtlas' = FALSE
                       /\ hist' = [ResetObserved(hist, d2dBeganDrawing,
                                                 d2dRenderTarget, r.resized)
                                     EXCEPT !.nReset = @ + 1, !.justReset = TRUE,
                                            !.nResize = IF r.resized THEN @ + 1 ELSE @]
                       /\ pc' = "rows"
                       /\ rowY' = 1
                       /\ glyphX' = 1
                       /\ dirty' = [dirty EXCEPT !.acc = NoDirtySpan]
                  ELSE /\ hist' = Thrown([hist EXCEPT
                                            !.replacedOpen =
                                                @ \/ (o.result = "failed"
                                                      /\ d2dRenderTarget.drawing)],
                                         IF o.result = "crashed" THEN "crashed"
                                         ELSE "resizeFailed")
                       /\ pc' = IF o.result = "crashed" THEN "crashed" ELSE "idle"
                       /\ UNCHANGED << fontChangedResetGlyphAtlas, rowY, glyphX, dirty >>
       ELSE /\ UNCHANGED << glyphAtlas, rectPacker, rectPackerData, glyphAtlasMap,
                            d2dBeganDrawing, d2dRenderTarget,
                            fontChangedResetGlyphAtlas >>
            /\ hist' = [hist EXCEPT !.justReset = FALSE]
            /\ pc' = "rows"
            /\ rowY' = 1
            /\ glyphX' = 1
            /\ dirty' = [dirty EXCEPT !.acc = NoDirtySpan]
    /\ UNCHANGED << p, generation, fontGeneration, miscGeneration, targetSize,
                    viewportCellCount, renderTargetView, customRenderTargetView,
                    customOffscreenTexture,
                    customPixelShader, requiresContinuousRedraw, backgroundBitmap,
                    textShadingType, ligatureOverhangTrigger, glyphAtlasBitmaps,
                    cellColors, cells, req, mergeSide, sizing, split, background, gridlines, dispatch, curly, shaderTime, color >>

\* The glyph the text pass is at
CurRow == Rows[rowY]

CurGlyph == CurRow.glyphs[glyphX]

CurKey == << CurGlyph[1], CurRow.lineRendition, CurGlyph[2] >>

settingsAndPayload0 == << p, settingsVars, cellColors, sizing, split, background, gridlines, dispatch, curly, shaderTime, color >>

settingsAndPayload == << settingsAndPayload0, mergeSide >>

\* After a successful allocation at pk: draw the glyph, insert its entries
\* and stamp it (lines 1159-1212 / 1230-1278, then 894-915), the write of
\* the cell ending as end says.  When the drawing of a soft-font glyph
\* raises, the rectangle is taken and the drawing session open, and no
\* entry is inserted or stamped; when a call goes through a null
\* _d2dRenderTarget, the rectangle is taken and nothing else has changed.
CompleteGlyph(pk, fail, end) ==
    LET new == InsertedEntries(Font, CurRow.lineRendition, CurGlyph[1], CurGlyph[2],
                               pk.x, pk.y)
        how == GlyphDrawn(Font, CurGlyph[1], CurGlyph[2], fail,
                          d2dBeganDrawing, d2dRenderTarget)
    IN /\ rectPacker' = pk.packer
       /\ IF how = "crashed"
          THEN UNCHANGED << d2dBeganDrawing, d2dRenderTarget >>
          ELSE /\ d2dBeganDrawing' =
                      D2dBeginDrawing(d2dBeganDrawing, d2dRenderTarget).began
               /\ d2dRenderTarget' =
                      D2dBeginDrawing(d2dBeganDrawing, d2dRenderTarget).target
       /\ IF how = "drawn"
          THEN /\ glyphAtlasMap' = new @@ glyphAtlasMap
               /\ dirty' = [dirty EXCEPT
                              !.rows = RowDirtied(@, Font, CurRow, rowY, glyphX,
                                                  new[CurKey])]
               /\ IF end = "written"
                  THEN /\ cells' = Stamped(cells, Font, CurRow, rowY, glyphX,
                                           new[CurKey])
                       /\ glyphX' = glyphX + 1
                  ELSE UNCHANGED << cells, glyphX >>
          ELSE UNCHANGED << glyphAtlasMap, cells, dirty, glyphX >>
       /\ UNCHANGED << glyphAtlas, rectPackerData, glyphAtlasBitmaps, rowY >>

\* The glyph whose rectangle was granted at pk, h being the history before
\* the drawing and next where the text pass goes on when the glyph is drawn
\* and stamped
AllocatedGlyph(pk, fail, h, next) ==
    LET new == InsertedEntries(Font, CurRow.lineRendition, CurGlyph[1], CurGlyph[2],
                               pk.x, pk.y)
        how == GlyphDrawn(Font, CurGlyph[1], CurGlyph[2], fail,
                          d2dBeganDrawing, d2dRenderTarget)
        observed(draws) == [DrawObserved(h, d2dBeganDrawing, d2dRenderTarget, draws)
                              EXCEPT !.nAlloc = @ + 1]
        stamped == WriteObserved(observed(GlyphDraws(Font, CurGlyph[1], CurGlyph[2])),
                                 Font, CurRow, rowY, glyphX, new[CurKey])
    IN \E end \in IF how = "drawn"
                  THEN StampEnds(Font, CurRow, rowY, glyphX, new[CurKey])
                  ELSE {"written"} :
         /\ CompleteGlyph(pk, fail, end)
         /\ pc' = IF how = "crashed" \/ end = "crashed" THEN "crashed"
                  ELSE IF how = "drawn" THEN next
                  ELSE "idle"
         /\ hist' = IF how = "crashed"
                    THEN Thrown([h EXCEPT !.nAlloc = @ + 1], "crashed")
                    ELSE IF how # "drawn" THEN Thrown(observed(FALSE), how)
                    ELSE IF end = "crashed" THEN Thrown(stamped, "crashed")
                    ELSE stamped

\* Whether measuring the glyph raises: _drawGlyph measures the glyph of a
\* font face with GetGlyphRunWorldBounds (line 1129); the fonts of this
\* part of the model have no colour glyphs
MeasureThrows(face, fail) == face # 0 /\ fail = "measure"

\* The calls that handling a cache miss of the glyph makes and that can fail
\* and raise: the glyph of a font face is measured (line 1129), a soft-font
\* character is drawn by _drawSoftFontGlyph (CreateBitmap, line 1307, and
\* CopyFromMemory, line 1325; either leaves the same state of what is
\* modelled here), any other built-in glyph is drawn by calls that return
\* nothing (line 1259)
GlyphFailPoints(face, glyphIndex) ==
    {"none"} \cup (IF face # 0 THEN {"measure"}
                   ELSE IF IsSoftFontChar(glyphIndex) THEN {"softFontBitmap"}
                   ELSE {})

\* One glyph of _drawText (lines 875-919): lookup, on a miss _drawGlyph with
\* the first allocation attempt of _drawGlyphAtlasAllocate (line 1340).
\* _drawGlyph starts with calls through _d2dRenderTarget for the glyph of a
\* font face (lines 1084, 1129).
DrawGlyph ==
    /\ pc = "rows"
    /\ rowY <= Len(Rows)
    /\ glyphX <= Len(CurRow.glyphs)
    /\ IF Has(glyphAtlasMap, CurKey)
       THEN \E end \in StampEnds(Font, CurRow, rowY, glyphX, glyphAtlasMap[CurKey]) :
            LET h == WriteObserved([hist EXCEPT !.nLookup = @ + 1,
                                                !.justReset = FALSE],
                                   Font, CurRow, rowY, glyphX, glyphAtlasMap[CurKey])
            IN /\ dirty' = [dirty EXCEPT
                              !.rows = RowDirtied(@, Font, CurRow, rowY, glyphX,
                                                  glyphAtlasMap[CurKey])]
               /\ IF end = "written"
                  THEN /\ cells' = Stamped(cells, Font, CurRow, rowY, glyphX,
                                           glyphAtlasMap[CurKey])
                       /\ glyphX' = glyphX + 1
                       /\ hist' = h
                       /\ UNCHANGED pc
                  ELSE /\ pc' = "crashed"
                       /\ hist' = Thrown(h, "crashed")
                       /\ UNCHANGED << cells, glyphX >>
               /\ UNCHANGED << atlasVars, rowY, req >>
       ELSE LET r == GlyphRect(Font, CurRow.lineRendition, CurGlyph[1], CurGlyph[2])
                pk == stbrp_pack_rects(rectPacker, r.w, r.h)
                h == [hist EXCEPT !.nLookup = @ + 1, !.nRaster = @ + 1,
                                  !.justReset = FALSE]
            IN IF CurGlyph[1] # 0 /\ ~d2dRenderTarget.exists
               THEN /\ pc' = "crashed"
                    /\ hist' = Thrown(h, "crashed")
                    /\ UNCHANGED << atlasVars, cells, rowY, glyphX, req, dirty >>
               ELSE \E fail \in GlyphFailPoints(CurGlyph[1], CurGlyph[2]) :
                    IF MeasureThrows(CurGlyph[1], fail)
                    THEN /\ pc' = "idle"
                         /\ hist' = Thrown(h, "measureFailed")
                         /\ UNCHANGED << atlasVars, cells, rowY, glyphX, req, dirty >>
                    ELSE IF r.none
                    THEN /\ glyphAtlasMap' = (CurKey :> DefaultEntry) @@ glyphAtlasMap
                         /\ glyphX' = glyphX + 1
                         /\ hist' = h
                         /\ UNCHANGED << glyphAtlas, rectPacker, rectPackerData,
                                         d2dBeganDrawing, d2dRenderTarget,
                                         glyphAtlasBitmaps,
                                         cells, pc, rowY, req, dirty >>
                    ELSE IF pk.ok
                    THEN /\ AllocatedGlyph(pk, fail, h, pc)
                         /\ UNCHANGED req
                    ELSE /\ pc' = "overflow"
                         /\ req' = [kind |-> "glyph", w |-> r.w, h |-> r.h,
                                    attempts |-> 1, resets |-> 0]
                         /\ hist' = h
                         /\ UNCHANGED << atlasVars, cells, rowY, glyphX, dirty >>
    /\ UNCHANGED settingsAndPayload

\* End of a row (lines 922-933), reached from the row's last glyph: an
\* invalidated row's span joins the dirty span
RowEnd ==
    /\ pc = "rows"
    /\ rowY <= Len(Rows)
    /\ glyphX > Len(CurRow.glyphs)
    /\ rowY' = rowY + 1
    /\ glyphX' = 1
    /\ dirty' = [dirty EXCEPT !.acc = RowAccumulated(@, dirty.invalidatedRows,
                                                      dirty.rows[rowY], rowY)]
    /\ hist' = [hist EXCEPT !.justReset = FALSE]
    /\ UNCHANGED << settingsAndPayload, atlasVars, cells, pc, req >>

\* End of _drawText (lines 936-942): the dirty span joins the payload's
\* dirty rectangle, then _d2dEndDrawing
DrawTextEnd ==
    /\ pc = "rows"
    /\ rowY > Len(Rows)
    /\ dirty' = [dirty EXCEPT !.rect = TextDirtyRect(@, dirty.acc)]
    /\ \E end \in EndDrawResults(d2dBeganDrawing, d2dRenderTarget) :
         IF end = "ok"
         THEN /\ d2dBeganDrawing' = D2dEndDrawing(d2dBeganDrawing, d2dRenderTarget).began
              /\ d2dRenderTarget' = D2dEndDrawing(d2dBeganDrawing, d2dRenderTarget).target
              /\ pc' = "flush"
              /\ hist' = [hist EXCEPT !.justReset = FALSE]
         ELSE IF end = "failed"
         THEN /\ d2dRenderTarget' \in EndDrawFailed(d2dRenderTarget)
              /\ UNCHANGED d2dBeganDrawing
              /\ pc' = "idle"
              /\ hist' = Thrown(hist, "endDrawFailed")
         ELSE /\ UNCHANGED << d2dBeganDrawing, d2dRenderTarget >>
              /\ pc' = "crashed"
              /\ hist' = Thrown(hist, "crashed")
    /\ UNCHANGED << settingsAndPayload, glyphAtlas, rectPacker, rectPackerData,
                    glyphAtlasMap, glyphAtlasBitmaps, cells, rowY, glyphX, req >>

(***************************************************************************)
(* Atlas overflow: _drawGlyphAtlasAllocate (lines 1338-1360)                *)
(***************************************************************************)
\* lines 1345-1355: _d2dEndDrawing, _flushQuads unless the text is that of
\* "Stashed changes", then _resetGlyphAtlas, which opens a new drawing
\* session.  When _flushQuads raises (lines 781-787), the session is closed
\* and the atlas is not reset; when the resize raises, the quads have been
\* flushed, and when it has left _d2dRenderTarget null and the request is
\* that of a glyph of a font face, the error unwinds through _drawGlyph's
\* scope guard, which calls SetTransform through the null pointer (lines
\* 1087-1089).  The text the build was made of is told by the first of
\* these steps.
OverflowReset ==
    /\ pc = "overflow"
    /\ \E end \in EndDrawResults(d2dBeganDrawing, d2dRenderTarget) :
         IF end = "crashed"
         THEN /\ pc' = "crashed"
              /\ hist' = Thrown(hist, "crashed")
              /\ UNCHANGED << atlasVars, fontChangedResetGlyphAtlas, req, mergeSide >>
         ELSE IF end = "failed"
         THEN /\ d2dRenderTarget' \in EndDrawFailed(d2dRenderTarget)
              /\ pc' = "idle"
              /\ hist' = Thrown(hist, "endDrawFailed")
              /\ UNCHANGED << glyphAtlas, rectPacker, rectPackerData, d2dBeganDrawing,
                              glyphAtlasMap, fontChangedResetGlyphAtlas, req,
                              mergeSide >>
         ELSE \E side \in IF mergeSide = "open" THEN MergeSides ELSE {mergeSide} :
              LET r == ResetGlyphAtlas
                  e == D2dEndDrawing(d2dBeganDrawing, d2dRenderTarget)
                  flushes == side # "stashed"
                  h == [hist EXCEPT !.nDispatch = IF flushes THEN @ + 1 ELSE @]
              IN /\ mergeSide' = side
                 /\ \E fail \in (IF flushes THEN {"cellBuffer"} ELSE {})
                               \cup (IF r.resized THEN ResizeFailPoints ELSE {"none"}) :
                      IF fail = "cellBuffer"
                      THEN /\ d2dBeganDrawing' = e.began
                           /\ d2dRenderTarget' = e.target
                           /\ pc' = "idle"
                           /\ hist' = Thrown(hist, "flushFailed")
                           /\ UNCHANGED << glyphAtlas, rectPacker, rectPackerData,
                                           glyphAtlasMap, fontChangedResetGlyphAtlas,
                                           req >>
                      ELSE LET o == ResetOutcome(r, e.began, e.target, fail)
                               crashed ==
                                   \/ o.result = "crashed"
                                   \/ /\ o.result = "failed"
                                      /\ ~o.target.exists
                                      /\ CurGlyph[1] # 0
                           IN /\ glyphAtlas' = o.glyphAtlas
                              /\ rectPacker' = o.rectPacker
                              /\ rectPackerData' = o.rectPackerData
                              /\ glyphAtlasMap' = o.glyphAtlasMap
                              /\ d2dBeganDrawing' = o.began
                              /\ d2dRenderTarget' = o.target
                              /\ IF o.result = "ok"
                                 THEN /\ fontChangedResetGlyphAtlas' = FALSE
                                      /\ pc' = "retry"
                                      /\ req' = [req EXCEPT !.resets = @ + 1]
                                      /\ hist' = [ResetObserved(h, e.began, e.target,
                                                                r.resized)
                                                    EXCEPT !.nReset = @ + 1,
                                                           !.overflow = TRUE,
                                                           !.justReset = TRUE,
                                                           !.nResize = IF r.resized
                                                                       THEN @ + 1
                                                                       ELSE @]
                                 ELSE /\ hist' = Thrown(h, IF crashed THEN "crashed"
                                                           ELSE "resizeFailed")
                                      /\ pc' = IF crashed THEN "crashed" ELSE "idle"
                                      /\ UNCHANGED << fontChangedResetGlyphAtlas, req >>
    /\ UNCHANGED << p, generation, fontGeneration, miscGeneration, targetSize,
                    viewportCellCount, renderTargetView, customRenderTargetView,
                    customOffscreenTexture,
                    customPixelShader, requiresContinuousRedraw, backgroundBitmap,
                    textShadingType, ligatureOverhangTrigger, glyphAtlasBitmaps,
                    cellColors, cells, rowY, glyphX, sizing, split, dirty,
                    background, gridlines, dispatch, curly, shaderTime, color >>

\* A plausible slip: a failed retry goes round the reset again.
AfterRetry_Loop(ok) == IF ok THEN "rows" ELSE "overflow"

\* lines 1356-1359: the retry either succeeds or raises
\* HRESULT_FROM_WIN32(ERROR_POSSIBLE_DEADLOCK), which ends the Render
AfterRetry(ok) == IF ok THEN "rows" ELSE "idle"

\* The retry of _drawGlyphAtlasAllocate (lines 1356-1359) and, when it is
\* granted, the drawing of the glyph that asked
OverflowRetry ==
    /\ pc = "retry"
    /\ LET pk == stbrp_pack_rects(rectPacker, req.w, req.h)
           next == AfterRetry(pk.ok)
           h == [hist EXCEPT !.justReset = FALSE]
       IN /\ req' = [req EXCEPT !.attempts = @ + 1]
          /\ IF pk.ok
             THEN \E fail \in GlyphFailPoints(CurGlyph[1], CurGlyph[2])
                                 \ {"measure"} :
                    AllocatedGlyph(pk, fail, h, next)
             ELSE /\ pc' = next
                  /\ hist' = IF next = "idle" THEN Thrown(hist, "fatal") ELSE h
                  /\ UNCHANGED << atlasVars, cells, rowY, glyphX, dirty >>
    /\ UNCHANGED settingsAndPayload

(***************************************************************************)
(* The compositor pass and the post-process pass (lines 769-799, 1751-1804) *)
(***************************************************************************)
\* _flushQuads: upload the cell grid and dispatch; Render returns here
\* unless a custom pixel shader is installed (lines 133-138).  When creating
\* or mapping the cell buffer fails (lines 781-787; each of the three calls
\* leaves the same state of what is modelled here) nothing is dispatched.
FlushQuads ==
    /\ pc = "flush"
    /\ \E uploaded \in BOOLEAN :
       LET h == [hist EXCEPT !.nDispatch = @ + 1, !.justReset = FALSE]
       IN IF ~uploaded
          THEN pc' = "idle" /\ hist' = Thrown(hist, "flushFailed")
          ELSE IF customPixelShader
          THEN pc' = "customShader" /\ hist' = h
          ELSE pc' = "idle" /\ hist' = Returned(h)
    /\ UNCHANGED << settingsAndPayload, atlasVars, cells, rowY, glyphX, req, dirty >>

\* _executeCustomShader (lines 1751-1804) with the counter reading one of
\* counts: the time is computed from the counter and the modulus (lines
\* 1755-1756; a modulus of zero is a division by zero, which ends the
\* process); mapping the constant buffer may fail and raise (line 1769);
\* otherwise the pass is drawn, the whole target is reported dirty and
\* Render returns
ExecuteCustomShaderAt(counts) ==
    /\ pc = "customShader"
    /\ IF shaderTime.mod = ToBig(0)
       THEN /\ pc' = "crashed"
            /\ hist' = Thrown(hist, "crashed")
            /\ UNCHANGED << dirty, shaderTime >>
       ELSE /\ pc' = "idle"
            /\ \E now \in counts :
                 shaderTime' = [shaderTime EXCEPT
                                  !.stage = "time", !.now = now,
                                  !.rem = BigMod(now, shaderTime.mod),
                                  !.ticks = CustomShaderTicks(now, shaderTime.mod)]
            /\ \E mapped \in BOOLEAN :
                 IF mapped
                 THEN /\ hist' = Returned(hist)
                      /\ dirty' = [dirty EXCEPT
                                     !.rect = PostProcessDirtyRect(@, p.targetSize)]
                 ELSE /\ hist' = Thrown(hist, "postProcessFailed")
                      /\ UNCHANGED dirty
    /\ UNCHANGED << p, settingsVars, atlasVars, cellColors, cells, rowY, glyphX, req,
                    mergeSide, sizing, split, background, gridlines, dispatch,
                    curly, color >>

\* The post-process pass at one reading of the counter
ExecuteCustomShader == ExecuteCustomShaderAt({PerfCountNow})

\* The post-process pass at any of the readings
ExecuteCustomShaderAnyTime == ExecuteCustomShaderAt(PerfCounts)

(***************************************************************************)
(* The caller before a further Render call                                 *)
(***************************************************************************)
backendVars0 == << settingsVars, atlasVars, cellColors, cells, pc, rowY, glyphX,
                   req, mergeSide >>

backendVars == << backendVars0, sizing, split, dirty, background, gridlines, dispatch, curly, shaderTime, color >>

\* The font settings change: font and overall generation are bumped
ChangeFont ==
    /\ pc = "idle"
    /\ hist.renders < MaxRenders
    /\ p.gen < MaxGen
    /\ \E f \in PlainFonts :
         p' = [p EXCEPT !.font = f, !.fontGen = p.gen + 1, !.gen = p.gen + 1]
    /\ hist' = Touched(hist)
    /\ UNCHANGED backendVars

\* The misc settings change: misc and overall generation are bumped
ChangeMisc ==
    /\ pc = "idle"
    /\ hist.renders < MaxRenders
    /\ p.gen < MaxGen
    /\ \E m \in MiscMenu :
         p' = [p EXCEPT !.misc = m, !.miscGen = p.gen + 1, !.gen = p.gen + 1]
    /\ hist' = Touched(hist)
    /\ UNCHANGED backendVars

\* The window is resized: target size and cell count change, the overall
\* generation is bumped
ChangeViewportUpTo(maxRenders, maxGen) ==
    /\ pc = "idle"
    /\ hist.renders < maxRenders
    /\ p.gen < maxGen
    /\ \E vp \in PlainViewports :
         /\ ViewportMenu[vp].targetSize # p.targetSize
         /\ p' = [p EXCEPT !.targetSize = ViewportMenu[vp].targetSize,
                           !.viewportCellCount = ViewportMenu[vp].viewportCellCount,
                           !.gen = p.gen + 1]
    /\ hist' = Touched(hist)
    /\ UNCHANGED backendVars

ChangeViewport == ChangeViewportUpTo(MaxRenders, MaxGen)

\* A plausible slip: the views are dropped but the generation stamp is kept.
ReleaseResources_KeepGeneration ==
    /\ pc = "idle"
    /\ hist.renders < MaxRenders
    /\ renderTargetView' = FALSE
    /\ customRenderTargetView' = FALSE
    /\ hist' = Touched(hist)
    /\ UNCHANGED << p, generation, fontGeneration, miscGeneration, targetSize,
                    viewportCellCount, customOffscreenTexture,
                    customPixelShader, requiresContinuousRedraw, backgroundBitmap,
                    fontChangedResetGlyphAtlas, textShadingType,
                    ligatureOverhangTrigger, atlasVars, cellColors, cells, pc, rowY,
                    glyphX, req, mergeSide, sizing, split, dirty, background, gridlines, dispatch, curly, shaderTime, color >>


\* ReleaseResources (lines 103-109)
ReleaseResources ==
    /\ pc = "idle"
    /\ hist.renders < MaxRenders
    /\ renderTargetView' = FALSE
    /\ customRenderTargetView' = FALSE
    /\ generation' = 0
    /\ hist' = Touched(hist)
    /\ UNCHANGED << p, fontGeneration, miscGeneration, targetSize, viewportCellCount,
                    customOffscreenTexture,
                    customPixelShader, requiresContinuousRedraw, backgroundBitmap,
                    fontChangedResetGlyphAtlas, textShadingType,
                    ligatureOverhangTrigger, atlasVars, cellColors, cells, pc, rowY,
                    glyphX, req, mergeSide, sizing, split, dirty, background, gridlines, dispatch, curly, shaderTime, color >>

\* ~BackendD3D (lines 92-101): when a drawing session is flagged open
\* EndDraw is called on the render target and its result only logged; with
\* a null _d2dRenderTarget that is a call through a null pointer.  The
\* members are then released with the object; the flag is not cleared.
DestroyBackendD3D ==
    /\ pc = "idle"
    /\ IF d2dBeganDrawing /\ ~d2dRenderTarget.exists
       THEN /\ pc' = "crashed"
            /\ hist' = Thrown(hist, "crashed")
            /\ UNCHANGED << renderTargetView, customRenderTargetView,
                            customOffscreenTexture, customPixelShader,
                            backgroundBitmap, d2dRenderTarget >>
       ELSE /\ pc' = "destroyed"
            /\ hist' = Touched(hist)
            /\ renderTargetView' = FALSE
            /\ customRenderTargetView' = FALSE
            /\ customOffscreenTexture' = FALSE
            /\ customPixelShader' = FALSE
            /\ backgroundBitmap' = FALSE
            /\ d2dRenderTarget' = NoRenderTarget
    /\ UNCHANGED << p, generation, fontGeneration, miscGeneration, targetSize,
                    viewportCellCount, requiresContinuousRedraw,
                    fontChangedResetGlyphAtlas, textShadingType,
                    ligatureOverhangTrigger, glyphAtlas, rectPacker,
                    rectPackerData, d2dBeganDrawing, glyphAtlasMap,
                    glyphAtlasBitmaps, cellColors, cells, rowY, glyphX, req,
                    mergeSide, sizing, split, dirty, background, gridlines,
                    dispatch, curly, shaderTime, color >>

(***************************************************************************)
(* The sizing policy on its own: cell, surface and packer sizes drawn from *)
(* menus, then the area and the dimensions as _resetGlyphAtlas computes    *)
(* them (lines 579-603).  The menus keep every 32-bit product of the code  *)
(* below 2^31.                                                             *)
(***************************************************************************)
\* p.s->font->cellSize
SizingCells == { << 8, 16 >>, << 10, 20 >>, << 512, 512 >>, << 600, 600 >>,
                 << 1000, 1000 >> }

\* p.s->targetSize
SizingTargets == { << 1, 1 >>, << 640, 480 >>, << 1024, 768 >>, << 1024, 1024 >>,
                   << 1638, 1024 >>, << 1639, 1024 >>, << 1920, 1080 >>,
                   << 3840, 2160 >>, << 8192, 8192 >> }

\* _rectPacker.width and height: none yet, or what an earlier reset set
SizingPackers == { << 0, 0 >>, << 1024, 1024 >>, << 2048, 1024 >>, << 2048, 2048 >>,
                   << 4096, 2048 >>, << 8192, 4096 >>, << 8192, 8192 >> }

InitSizing ==
    /\ p = [gen |-> 1, fontGen |-> 1, miscGen |-> 1, font |-> 1, misc |-> "none",
            targetSize |-> ViewportMenu[1].targetSize,
            viewportCellCount |-> ViewportMenu[1].viewportCellCount,
            frame |-> 1, softFontChars |-> 0]
    /\ BackendInit
    /\ mergeSide = "open"
    /\ \E c \in SizingCells, t \in SizingTargets, k \in SizingPackers :
         sizing = [SizingInit EXCEPT !.stage = "inputs",
                                     !.cellW = c[1], !.cellH = c[2],
                                     !.targetW = t[1], !.targetH = t[2],
                                     !.packW = k[1], !.packH = k[2]]
    /\ split = SplitInit
    /\ dirty = DirtyInit
    /\ background = BackgroundInit
    /\ gridlines = GridlinesInit
    /\ dispatch = DispatchInit
    /\ curly = CurlyInit
    /\ shaderTime = ShaderTimeInit
    /\ color = ColorInit

\* lines 579-594: the target area
SizingArea ==
    /\ sizing.stage = "inputs"
    /\ sizing' = [sizing EXCEPT
                    !.stage = "area",
                    !.area = AtlasTargetArea(sizing.cellW, sizing.cellH,
                                             sizing.targetW, sizing.targetH,
                                             sizing.packW, sizing.packH)]
    /\ UNCHANGED << p, backendVars0, hist, split, dirty, background, gridlines, dispatch, curly, shaderTime, color >>

\* lines 600-603: the texture dimensions
SizingDims ==
    /\ sizing.stage = "area"
    /\ sizing' = [sizing EXCEPT !.stage = "dims",
                                !.u = AtlasU(sizing.area),
                                !.v = AtlasV(sizing.area)]
    /\ UNCHANGED << p, backendVars0, hist, split, dirty, background, gridlines, dispatch, curly, shaderTime, color >>

NextSizing ==
    \/ SizingArea
    \/ SizingDims

SpecSizing == InitSizing /\ [][NextSizing]_vars

(***************************************************************************)
(* The double-height split on its own: font metrics, a rasterized entry    *)
(* and the rendition of the row being drawn are drawn from menus, then the *)
(* entry is split as _splitDoubleHeightGlyph does (lines 1373-1404).       *)
(***************************************************************************)
\* p.s->font: << cellSize.y, baseline, descender >>
SplitFonts == { << 16, 12, 4 >>, << 20, 15, 5 >>, << 512, 384, 128 >> }

\* glyphEntry->offset.y as rasterization leaves it: the top of the ink,
\* scaled by two, relative to the baseline
SplitOffsets == { -1024, -768, -40, -24, -17, -8, -1, 0, 3 }

\* glyphEntry->size.y as rasterization leaves it
SplitHeights == { 0, 1, 8, 15, 32, 600 }

\* glyphEntry->texcoord as rasterization leaves it
SplitTexcoords == { << 0, 0 >>, << 448, 1024 >> }

\* glyphEntry->shadingType as rasterization leaves it
SplitShadings == { "Default", "TextGrayscale", "TextClearType", "TextBuiltinGlyph" }

InitSplit ==
    /\ p = [gen |-> 1, fontGen |-> 1, miscGen |-> 1, font |-> 1, misc |-> "none",
            targetSize |-> ViewportMenu[1].targetSize,
            viewportCellCount |-> ViewportMenu[1].viewportCellCount,
            frame |-> 1, softFontChars |-> 0]
    /\ BackendInit
    /\ mergeSide = "open"
    /\ sizing = SizingInit
    /\ dirty = DirtyInit
    /\ background = BackgroundInit
    /\ gridlines = GridlinesInit
    /\ dispatch = DispatchInit
    /\ curly = CurlyInit
    /\ shaderTime = ShaderTimeInit
    /\ color = ColorInit
    /\ \E f \in SplitFonts, oy \in SplitOffsets, h \in SplitHeights,
          tc \in SplitTexcoords, sh \in SplitShadings,
          lr \in {"DoubleHeightTop", "DoubleHeightBottom"} :
         split = [stage |-> "inputs",
                  font |-> [cellH |-> f[1], baseline |-> f[2], descender |-> f[3]],
                  lineRendition |-> lr,
                  e |-> [shadingType |-> sh, overlapSplit |-> FALSE,
                         offset |-> << 0, oy >>, size |-> << 8, h >>,
                         texcoord |-> tc],
                  entries |-> EmptyMap]

\* _splitDoubleHeightGlyph: the entry of the row's own rendition and the
\* second entry filed under the other rendition
SplitGlyph ==
    /\ split.stage = "inputs"
    /\ LET halves == SplitDoubleHeightGlyph(split.font, split.e)
       IN split' = [split EXCEPT
                      !.stage = "done",
                      !.entries = ("DoubleHeightTop" :> halves.top)
                                  @@ ("DoubleHeightBottom" :> halves.bottom)]
    /\ UNCHANGED << p, backendVars0, hist, sizing, dirty, background, gridlines, dispatch, curly, shaderTime, color >>

NextSplit == SplitGlyph

SpecSplit == InitSplit /\ [][NextSplit]_vars



(***************************************************************************)
(* Renders of a caller that invalidates some of the rows                   *)
(***************************************************************************)
NextDirty ==
    \/ RenderBeginDirty
    \/ DrawTextBegin
    \/ DrawGlyph
    \/ RowEnd
    \/ DrawTextEnd
    \/ OverflowReset
    \/ OverflowRetry
    \/ FlushQuads
    \/ ExecuteCustomShader
    \/ ChangeMisc

SpecDirty == Init /\ [][NextDirty]_vars

(***************************************************************************)
(* Renders of a frame with soft-font characters, with and without a soft   *)
(* font of one character                                                   *)
(***************************************************************************)
SoftFontSizes == {0, 1}

InitSoftFont ==
    /\ \E f \in PlainFonts, vp \in PlainViewports, n \in SoftFontSizes :
          p = [gen |-> 1, fontGen |-> 1, miscGen |-> 1, font |-> f, misc |-> "none",
               targetSize |-> ViewportMenu[vp].targetSize,
               viewportCellCount |-> ViewportMenu[vp].viewportCellCount,
               frame |-> 1, softFontChars |-> n]
    /\ BackendInit
    /\ mergeSide = "open"
    /\ sizing = SizingInit
    /\ split = SplitInit
    /\ dirty = DirtyInit
    /\ background = BackgroundInit
    /\ gridlines = GridlinesInit
    /\ dispatch = DispatchInit
    /\ curly = CurlyInit
    /\ shaderTime = ShaderTimeInit
    /\ color = ColorInit

NextSoftFont ==
    \/ RenderBeginSoftFont
    \/ DrawTextBegin
    \/ DrawGlyph
    \/ RowEnd
    \/ DrawTextEnd
    \/ OverflowReset
    \/ OverflowRetry
    \/ FlushQuads
    \/ ChangeFont
    \/ ChangeViewport

SpecSoftFont == InitSoftFont /\ [][NextSoftFont]_vars

(***************************************************************************)
(* Renders of frames with the glyphs the ligature thresholds tell apart,   *)
(* in a font of 8 x 16 cells with the standard ligatures feature on or     *)
(* off.  Every glyph of these frames fits the smallest atlas, so no        *)
(* allocation fails.                                                       *)
(***************************************************************************)
InitOverlap ==
    /\ \E f \in SmallFonts :
          p = [gen |-> 1, fontGen |-> 1, miscGen |-> 1, font |-> f, misc |-> "none",
               targetSize |-> ViewportMenu[SmallViewport].targetSize,
               viewportCellCount |-> ViewportMenu[SmallViewport].viewportCellCount,
               frame |-> 1, softFontChars |-> 0]
    /\ BackendInit
    /\ mergeSide = "open"
    /\ sizing = SizingInit
    /\ split = SplitInit
    /\ dirty = DirtyInit
    /\ background = BackgroundInit
    /\ gridlines = GridlinesInit
    /\ dispatch = DispatchInit
    /\ curly = CurlyInit
    /\ color = ColorInit
    /\ shaderTime = ShaderTimeInit

RenderBeginOverlap == RenderWith(OverlapFrames, {DirtyGiven})

NextOverlap ==
    \/ RenderBeginOverlap
    \/ DrawTextBegin
    \/ DrawGlyph
    \/ RowEnd
    \/ DrawTextEnd
    \/ FlushQuads

SpecOverlap == InitOverlap /\ [][NextOverlap]_vars

(***************************************************************************)
(* Renders of frames whose rows and shaping offsets reach beyond the cell  *)
(* grid, in a font of 8 x 16 cells: a window of 1024 x 768 pixels holds    *)
(* 128 x 48 of them, the grid 120 x 30.  Every glyph of these frames fits  *)
(* the smallest atlas, so no allocation fails.                             *)
(***************************************************************************)
InitStamp ==
    /\ p = [gen |-> 1, fontGen |-> 1, miscGen |-> 1, font |-> 3, misc |-> "none",
            targetSize |-> ViewportMenu[SmallViewport].targetSize,
            viewportCellCount |-> ViewportMenu[SmallViewport].viewportCellCount,
            frame |-> 1, softFontChars |-> 0]
    /\ BackendInit
    /\ mergeSide = "open"
    /\ sizing = SizingInit
    /\ split = SplitInit
    /\ dirty = DirtyInit
    /\ background = BackgroundInit
    /\ gridlines = GridlinesInit
    /\ dispatch = DispatchInit
    /\ curly = CurlyInit
    /\ color = ColorInit
    /\ shaderTime = ShaderTimeInit

RenderBeginStamp == RenderWith(StampFrames, {DirtyGiven})

NextStamp ==
    \/ RenderBeginStamp
    \/ DrawTextBegin
    \/ DrawGlyph
    \/ RowEnd
    \/ DrawTextEnd
    \/ FlushQuads

SpecStamp == InitStamp /\ [][NextStamp]_vars

(***************************************************************************)
(* Renders with a custom shader installed, on machines of every counter    *)
(* frequency and at every reading of the counter.  The glyphs of the       *)
(* single-row frame fit the atlas, so no allocation fails.                 *)
(***************************************************************************)
InitShaderTime ==
    /\ \E m \in MiscMenu \ {"none"} :
          p = [gen |-> 1, fontGen |-> 1, miscGen |-> 1, font |-> 1, misc |-> m,
               targetSize |-> ViewportMenu[1].targetSize,
               viewportCellCount |-> ViewportMenu[1].viewportCellCount,
               frame |-> 1, softFontChars |-> 0]
    /\ BackendInit
    /\ mergeSide = "open"
    /\ sizing = SizingInit
    /\ split = SplitInit
    /\ dirty = DirtyInit
    /\ background = BackgroundInit
    /\ gridlines = GridlinesInit
    /\ dispatch = DispatchInit
    /\ curly = CurlyInit
    /\ color = ColorInit
    /\ \E f \in PerfFrequencies : shaderTime = [ShaderTimeInit EXCEPT !.freq = f]

\* Render of the single-row frame
RenderBeginShaderTime == RenderWith({1}, {DirtyGiven})

NextShaderTime ==
    \/ RenderBeginShaderTime
    \/ DrawTextBegin
    \/ DrawGlyph
    \/ RowEnd
    \/ DrawTextEnd
    \/ FlushQuads
    \/ ExecuteCustomShaderAnyTime

SpecShaderTime == InitShaderTime /\ [][NextShaderTime]_vars

(***************************************************************************)
(* _drawBackground taken alone (lines 801-819): one cell of the viewport   *)
(***************************************************************************)
\* Viewport cell counts: those of the menu, the size of _cells, and sizes
\* narrower, wider, shorter and taller than it
BackgroundViewports ==
    { ViewportMenu[i].viewportCellCount : i \in PlainViewports }
    \cup { [x |-> GridColumns, y |-> GridRows], [x |-> GridColumns, y |-> 2],
           [x |-> 80, y |-> 24], [x |-> 4, y |-> GridRows + 1],
           [x |-> GridColumns + 1, y |-> GridRows] }

\* (u32)-1, the glyph coordinate of a cell without a glyph
NoGlyph == -1

\* The element i of p.backgroundBitmap or p.foregroundBitmap (which), a
\* buffer of one colour per viewport cell: elements are told apart by their
\* place; a read past the end yields any value, here one that happens to be
\* the colour wanted or one that is not
ColorReads(which, cellCount, i, wanted) ==
    IF i < cellCount.x * cellCount.y
    THEN { << which, i >> }
    ELSE { << which, wanted >>, << "outside", i >> }

InitBackground ==
    /\ \E f \in PlainFonts, vp \in PlainViewports :
          p = [gen |-> 1, fontGen |-> 1, miscGen |-> 1, font |-> f, misc |-> "none",
               targetSize |-> ViewportMenu[vp].targetSize,
               viewportCellCount |-> ViewportMenu[vp].viewportCellCount,
               frame |-> 1, softFontChars |-> 0]
    /\ BackendInit
    /\ mergeSide = "open"
    /\ sizing = SizingInit
    /\ split = SplitInit
    /\ dirty = DirtyInit
    /\ gridlines = GridlinesInit
    /\ dispatch = DispatchInit
    /\ curly = CurlyInit
    /\ shaderTime = ShaderTimeInit
    /\ color = ColorInit
    /\ \E c \in BackgroundViewports :
         \E x \in {0, 1, c.x - 1}, y \in {0, 1, c.y - 1} :
            background = [stage |-> "inputs", cellCount |-> c, x |-> x, y |-> y,
                          present |-> FALSE, cell |-> << >>]

\* lines 809-818: what the loop leaves in _cells for the viewport cell
\* (x, y), if _cells has such a cell.  The loop reads GridRows * GridColumns
\* elements of each buffer: with shorter buffers a read past the end may
\* fault, before or after the cell is written, and the process ends.
DrawBackground ==
    /\ background.stage = "inputs"
    /\ LET c == background.cellCount
           x == background.x
           y == background.y
           i == y * GridColumns + x
       IN \/ IF x < GridColumns /\ y < GridRows
             THEN \E bg \in ColorReads("background", c, i, y * c.x + x),
                     fg \in ColorReads("foreground", c, i, y * c.x + x) :
                    background' = [background EXCEPT
                                     !.stage = "done", !.present = TRUE,
                                     !.cell = [background |-> bg, foreground |-> fg,
                                               glyphX |-> NoGlyph,
                                               glyphY |-> NoGlyph]]
             ELSE background' = [background EXCEPT !.stage = "done"]
          \/ /\ c.x * c.y < GridColumns * GridRows
             /\ background' = [background EXCEPT !.stage = "crashed"]
    /\ UNCHANGED << p, backendVars0, hist, sizing, split, dirty, gridlines,
                    dispatch, curly, shaderTime, color >>

NextBackground == DrawBackground

SpecBackground == InitBackground /\ [][NextBackground]_vars

(***************************************************************************)
(* One horizontal line of _drawGridlines taken alone (lines 1409-1467)     *)
(***************************************************************************)
\* static_cast<i16>
I16(n) == LET m == n % 65536 IN IF m >= 32768 THEN m - 65536 ELSE m

\* FontDecorationPosition values tried for a cell height: positions from the
\* top of the cell to its bottom, heights from nothing to a whole cell
DecorationPositions(cellH) == {0, 1, cellH \div 2 - 1, cellH \div 2, cellH - 1, cellH}

DecorationHeights(cellH) == {0, 1, 2, cellH}

\* appendHorizontalLine (lines 1445-1467) for row y (from 0): the quad
\* appended, if any
AppendHorizontalLine(font, targetH, lr, y, pos) ==
    LET verticalShift == IF IsDoubleHeight(lr) THEN 1 ELSE 0
        rowTop == I16(font.cellH * y)
        rowBottom == I16(rowTop + font.cellH)
        textCellTop == IF lr = "DoubleHeightBottom" THEN I16(rowTop - font.cellH)
                       ELSE rowTop
        clipTop == IF lr = "DoubleHeightBottom" THEN rowTop ELSE 0
        clipBottom == IF lr = "DoubleHeightTop" THEN rowBottom ELSE targetH
        offset == Shl32(pos.position, verticalShift)
        height == U16(Shl32(pos.height, verticalShift))
        rt == Clamp(textCellTop + offset, clipTop, clipBottom)
        rb == Clamp(textCellTop + offset + height, clipTop, clipBottom)
    IN IF rt < rb
       THEN [emitted |-> TRUE, top |-> I16(rt), height |-> U16(rb - rt)]
       ELSE [emitted |-> FALSE, top |-> 0, height |-> 0]

\* The rows of the payload's target, by the payload's font, on either side
\* of the merge (the "Stash base" side of lines 1521-1685 reads as the
\* "Updated upstream" side)
InitGridlines ==
    /\ \E f \in PlainFonts, vp \in PlainViewports :
          p = [gen |-> 1, fontGen |-> 1, miscGen |-> 1, font |-> f, misc |-> "none",
               targetSize |-> ViewportMenu[vp].targetSize,
               viewportCellCount |-> ViewportMenu[vp].viewportCellCount,
               frame |-> 1, softFontChars |-> 0]
    /\ BackendInit
    /\ mergeSide \in MergeSides
    /\ sizing = SizingInit
    /\ split = SplitInit
    /\ dirty = DirtyInit
    /\ background = BackgroundInit
    /\ dispatch = DispatchInit
    /\ curly = CurlyInit
    /\ shaderTime = ShaderTimeInit
    /\ color = ColorInit
    /\ \E lr \in LineRenditions, y \in 0..2, a \in DecorationPositions(Font.cellH),
          h \in DecorationHeights(Font.cellH) :
         /\ (y + 1) * Font.cellH <= p.targetSize.y
         /\ gridlines = [stage |-> "inputs", lineRendition |-> lr, y |-> y,
                         pos |-> [position |-> a, height |-> h],
                         quad |-> [emitted |-> FALSE, top |-> 0, height |-> 0]]

\* _drawGridlines for a row with one horizontal line: the "Stashed changes"
\* side (lines 1686-1688) has an empty body
DrawGridline ==
    /\ gridlines.stage = "inputs"
    /\ gridlines' =
         [gridlines EXCEPT
            !.stage = "done",
            !.quad = IF mergeSide = "stashed" THEN @
                     ELSE AppendHorizontalLine(Font, p.targetSize.y,
                                               gridlines.lineRendition, gridlines.y,
                                               gridlines.pos)]
    /\ UNCHANGED << p, backendVars0, hist, sizing, split, dirty, background,
                    dispatch, curly, shaderTime, color >>

NextGridlines == DrawGridline

SpecGridlines == InitGridlines /\ [][NextGridlines]_vars

(***************************************************************************)
(* The dispatch of _flushQuads taken alone (lines 793-798)                 *)
(***************************************************************************)
\* Target widths and heights in pixels: multiples of 8 and not, landscape,
\* square and portrait targets
DispatchWidths == {1, 8, 9, 640, 768, 1024, 1920}

DispatchHeights == {1, 8, 9, 480, 768, 1080, 1200}

\* line 798: the thread-group counts handed to Dispatch
DispatchGroups(size) == [x |-> (size.x + 7) \div 8, y |-> (size.x + 7) \div 8]

InitDispatch ==
    /\ \E f \in PlainFonts, w \in DispatchWidths, h \in DispatchHeights :
          p = [gen |-> 1, fontGen |-> 1, miscGen |-> 1, font |-> f, misc |-> "none",
               targetSize |-> [x |-> w, y |-> h],
               viewportCellCount |-> ViewportMenu[1].viewportCellCount,
               frame |-> 1, softFontChars |-> 0]
    /\ BackendInit
    /\ mergeSide = "open"
    /\ sizing = SizingInit
    /\ split = SplitInit
    /\ dirty = DirtyInit
    /\ background = BackgroundInit
    /\ gridlines = GridlinesInit
    /\ dispatch = [stage |-> "inputs", groups |-> [x |-> 0, y |-> 0]]
    /\ curly = CurlyInit
    /\ shaderTime = ShaderTimeInit
    /\ color = ColorInit

\* The Dispatch call of _flushQuads for the payload's target size
FlushDispatch ==
    /\ dispatch.stage = "inputs"
    /\ dispatch' = [stage |-> "done", groups |-> DispatchGroups(p.targetSize)]
    /\ UNCHANGED << p, backendVars0, hist, sizing, split, dirty, background,
                    gridlines, curly, shaderTime, color >>

NextDispatch == FlushDispatch

SpecDispatch == InitDispatch /\ [][NextDispatch]_vars




(***************************************************************************)
(* Renders of a caller whose settings change as a whole between two        *)
(* Renders: a new font together with a new target size under one           *)
(* generation (lines 148-189)                                              *)
(***************************************************************************)
\* The font and the window change together: font and overall generation
\* are bumped once
ChangeSettingsUpTo(maxRenders, maxGen) ==
    /\ pc = "idle"
    /\ hist.renders < maxRenders
    /\ p.gen < maxGen
    /\ \E f \in PlainFonts, vp \in PlainViewports :
         p' = [p EXCEPT !.font = f, !.fontGen = p.gen + 1,
                        !.targetSize = ViewportMenu[vp].targetSize,
                        !.viewportCellCount = ViewportMenu[vp].viewportCellCount,
                        !.gen = p.gen + 1]
    /\ hist' = Touched(hist)
    /\ UNCHANGED backendVars

ChangeSettings == ChangeSettingsUpTo(MaxRenders, MaxGen)

NextSession ==
    \/ RenderBegin
    \/ DrawTextBegin
    \/ DrawGlyph
    \/ RowEnd
    \/ DrawTextEnd
    \/ OverflowReset
    \/ OverflowRetry
    \/ FlushQuads
    \/ ChangeSettings
    \/ DestroyBackendD3D

SpecSession == Init /\ [][NextSession]_vars


(***************************************************************************)
(* Renders after a resize that failed (lines 571-707): the caller changes   *)
(* font and window together, or the window alone                           *)
(***************************************************************************)
\* Most Render calls, and the highest settings generation, in a behaviour
\* of SpecResize: a resize that failed is observed by the Render after the
\* next settings change, a render target left null by the Render after it
MaxResizeRenders == 3

MaxResizeGen == 3

\* The frames drawn under SpecResize: a single row, two rows of
\* double-height glyphs, and the rows with soft-font characters
ResizeFrames == {1, 2, 4}

RenderResize ==
    RenderUpTo(ResizeFrames, {DirtyGiven}, SameMemoryBehind, MaxResizeRenders)

ChangeSettingsResize == ChangeSettingsUpTo(MaxResizeRenders, MaxResizeGen)

ChangeViewportResize == ChangeViewportUpTo(MaxResizeRenders, MaxResizeGen)

NextResize ==
    \/ RenderResize
    \/ DrawTextBegin
    \/ DrawGlyph
    \/ RowEnd
    \/ DrawTextEnd
    \/ OverflowReset
    \/ OverflowRetry
    \/ FlushQuads
    \/ ChangeSettingsResize
    \/ ChangeViewportResize
    \/ DestroyBackendD3D

SpecResize == Init /\ [][NextResize]_vars


(***************************************************************************)
(* The curly underline on its own: a font's cell height and double         *)
(* underline are drawn from small sets; _updateFontDependents computes the *)
(* geometry (lines 198-213).                                               *)
(***************************************************************************)
\* font.cellSize.y
CurlyCellHeights == (2..12) \cup {600}

\* font.doubleUnderline[0].height
CurlyLineHeights == 1..3

\* Font metric sets whose double underline lies inside the cell: the upper
\* line above the lower one, the lower one ending at or above the cell's
\* bottom edge
CurlyMetrics ==
    { m \in [cellHeight : CurlyCellHeights, duTop : 0..12, duBottom : 0..12,
             duHeight : CurlyLineHeights] :
        /\ m.duTop < m.duBottom
        /\ m.duBottom + m.duHeight <= m.cellHeight }

\* lines 199-212: height and position as the ints computed, and as the
\* u16 _curlyUnderline keeps after narrow_cast
CurlyUnderline(cellHeight, duTop, duBottom, duHeight) ==
    LET height == Max(3, duBottom + duHeight - duTop)
        position == Min(duTop, cellHeight - height)
    IN [height |-> height, position |-> position,
        storedPosition |-> U16(position), storedHeight |-> U16(height)]

InitCurly ==
    /\ p = [gen |-> 1, fontGen |-> 1, miscGen |-> 1, font |-> 1, misc |-> "none",
            targetSize |-> ViewportMenu[1].targetSize,
            viewportCellCount |-> ViewportMenu[1].viewportCellCount,
            frame |-> 1, softFontChars |-> 0]
    /\ BackendInit
    /\ mergeSide = "open"
    /\ sizing = SizingInit
    /\ split = SplitInit
    /\ dirty = DirtyInit
    /\ background = BackgroundInit
    /\ gridlines = GridlinesInit
    /\ dispatch = DispatchInit
    /\ shaderTime = ShaderTimeInit
    /\ color = ColorInit
    /\ \E m \in CurlyMetrics :
         curly = [stage |-> "inputs", font |-> m,
                  geometry |-> CurlyUnderline(3, 0, 1, 1)]

\* _updateFontDependents (lines 198-213) for the font drawn
CurlyFontUpdate ==
    /\ curly.stage = "inputs"
    /\ curly' = [curly EXCEPT !.stage = "font",
                              !.geometry = CurlyUnderline(curly.font.cellHeight,
                                                          curly.font.duTop,
                                                          curly.font.duBottom,
                                                          curly.font.duHeight)]
    /\ UNCHANGED << p, backendVars0, hist, sizing, split, dirty, background,
                    gridlines, dispatch, shaderTime, color >>

NextCurly == CurlyFontUpdate

SpecCurly == InitCurly /\ [][NextCurly]_vars





(***************************************************************************)
(* _drawGlyph on its own (lines 960-1212): one cache miss on one glyph,    *)
(* with the render target's transform and text antialiasing mode, the two  *)
(* scope guards (lines 1087-1089 and 1112-1117) and the entry recorded.    *)
(***************************************************************************)
\* p.s->font->antialiasingMode, and D2D1_TEXT_ANTIALIAS_MODE of the render
\* target
AntialiasingModes == {"Aliased", "Grayscale", "ClearType"}

\* <<font face, glyph index>> drawn: whitespace, a capital, a low mark and
\* a built-in box drawing glyph
ColorGlyphMenu == { << 1, 0 >>, << 1, 1 >>, << 1, 2 >>, << 0, 9472 >> }

\* Where _drawGlyph can raise before the allocation: TranslateColorGlyphRun
\* (line 1124, "translate"), GetGlyphRunWorldBounds (line 1129, "measure"),
\* ColorGlyphRunMoveNext and ColorGlyphRunAccumulateBounds (lines 1136-1139,
\* "bounds"); and after it: the colour run helpers of lines 1180-1184
\* ("draw")
ColorGlyphFailPoints == {"none", "translate", "measure", "bounds", "draw"}

\* _drawGlyphAtlasAllocate (lines 1338-1360) as _drawGlyph sees it: the
\* rectangle fits; the atlas overflows and EndDraw fails; the atlas is
\* reset, with or without a resize that may fail (ResizeFailPoints), and
\* the retry fits or raises (line 1358)
AllocateOutcomes ==
    { [overflow |-> FALSE, ended |-> TRUE, resized |-> FALSE, fail |-> "none",
       fatal |-> FALSE] }
    \cup { [overflow |-> TRUE, ended |-> FALSE, resized |-> FALSE, fail |-> "none",
            fatal |-> FALSE] }
    \cup { [overflow |-> TRUE, ended |-> TRUE, resized |-> FALSE, fail |-> "none",
            fatal |-> f] : f \in BOOLEAN }
    \cup { [overflow |-> TRUE, ended |-> TRUE, resized |-> TRUE, fail |-> "none",
            fatal |-> f] : f \in BOOLEAN }
    \cup { [overflow |-> TRUE, ended |-> TRUE, resized |-> TRUE, fail |-> x,
            fatal |-> FALSE] : x \in ResizeFailPoints \ {"none"} }

\* line 217: _textShadingType for the font's antialiasing mode
FontTextShadingType(mode) ==
    IF mode = "ClearType" THEN "TextClearType" ELSE "TextGrayscale"

\* _d2dRenderTargetUpdateFontSettings (lines 256-261) on a render target
D2dRenderTargetUpdateFontSettings(target, mode) == [target EXCEPT !.mode = mode]

\* The render target after _drawGlyphAtlasAllocate: a resize releases it
\* (line 643) and creates a new one with the identity transform and the
\* font's settings (lines 670-677)
AllocatedTarget(target, mode, o) ==
    IF ~o.resized THEN target
    ELSE IF o.fail \in {"glyphAtlas", "d2dRenderTarget"}
         THEN [exists |-> FALSE, mode |-> "Grayscale", transform |-> "identity"]
         ELSE D2dRenderTargetUpdateFontSettings(
                  [exists |-> TRUE, mode |-> "Grayscale", transform |-> "identity"],
                  mode)

\* _drawGlyphAtlasAllocate raises
AllocateThrows(o) == o.overflow /\ (~o.ended \/ o.fail # "none" \/ o.fatal)

\* The two scope guards on leaving _drawGlyph: antialiasingCleanup (lines
\* 1112-1117), then restoreTransform (lines 1087-1089)
DrawGlyphScopeExit(target, isColorGlyph, mode) ==
    [target EXCEPT !.mode = IF isColorGlyph THEN mode ELSE @,
                   !.transform = "identity"]

\* line 1198
EntryShadingType(isColorGlyph, tst) ==
    IF isColorGlyph THEN "TextPassthrough" ELSE tst

\* The entries _drawGlyph records for a glyph with ink (lines 1197-1210,
\* 1263-1276): one, or the two halves of a double-height glyph
RecordedEntries(font, lr, face, glyphIndex, isColorGlyph) ==
    LET r == RasterizedEntry(font, lr, face, glyphIndex, 0, 0)
        e == IF face = 0 THEN r
             ELSE [r EXCEPT !.shadingType =
                                EntryShadingType(isColorGlyph, textShadingType)]
        s == SplitDoubleHeightGlyph(font, e)
    IN IF IsDoubleHeight(lr) THEN << s.top, s.bottom >> ELSE << e >>

\* _drawGlyph is left: through the guards when the glyph has a font face
\* (with a null _d2dRenderTarget they call through a null pointer), at once
\* from _drawBuiltinGlyph (line 965)
LeaveDrawGlyph(c, exit, entries) ==
    IF c.glyph[1] # 0 /\ ~c.target.exists
    THEN [c EXCEPT !.stage = "crashed", !.exit = exit]
    ELSE [c EXCEPT !.stage = "returned", !.exit = exit, !.entries = entries,
                   !.target = IF c.glyph[1] # 0
                              THEN DrawGlyphScopeExit(c.target, c.isColorGlyph,
                                                      c.antialiasingMode)
                              ELSE c.target]

\* p.s->font of the glyph drawn
ColorFont(c) ==
    [FontMenu[c.font] EXCEPT !.clearType = (c.antialiasingMode = "ClearType")]

InitColorGlyph ==
    /\ p = [gen |-> 1, fontGen |-> 1, miscGen |-> 1, font |-> 1, misc |-> "none",
            targetSize |-> ViewportMenu[1].targetSize,
            viewportCellCount |-> ViewportMenu[1].viewportCellCount,
            frame |-> 1, softFontChars |-> 0]
    /\ BackendInit
    /\ mergeSide = "open"
    /\ sizing = SizingInit
    /\ split = SplitInit
    /\ dirty = DirtyInit
    /\ background = BackgroundInit
    /\ gridlines = GridlinesInit
    /\ dispatch = DispatchInit
    /\ curly = CurlyInit
    /\ shaderTime = ShaderTimeInit
    /\ \E f \in PlainFonts, m \in AntialiasingModes, before \in AntialiasingModes,
          cg \in BOOLEAN, lr \in LineRenditions, g \in ColorGlyphMenu,
          layers \in BOOLEAN :
         /\ layers => g[1] # 0
         /\ color = [stage |-> "inputs", font |-> f, antialiasingMode |-> m,
                     colorGlyphs |-> cg, lineRendition |-> lr, glyph |-> g,
                     layers |-> layers,
                     target |-> [exists |-> TRUE, mode |-> before,
                                 transform |-> "identity"],
                     isColorGlyph |-> FALSE, exit |-> "none", entries |-> << >>]

\* _updateFontDependents (lines 217-251) for the font drawn with
ColorFontUpdate ==
    /\ color.stage = "inputs"
    /\ LET s == UpdateFontDependents(SettingsState, ColorFont(color))
       IN /\ ligatureOverhangTrigger' = s.ligatureOverhangTrigger
          /\ textShadingType' = s.textShadingType
          /\ fontChangedResetGlyphAtlas' = s.fontChangedResetGlyphAtlas
    /\ color' = [color EXCEPT
                   !.stage = "font",
                   !.target = D2dRenderTargetUpdateFontSettings(@, color.antialiasingMode)]
    /\ UNCHANGED << p, generation, fontGeneration, miscGeneration, targetSize,
                    viewportCellCount, renderTargetView, customRenderTargetView,
                    customOffscreenTexture,
                    customPixelShader, requiresContinuousRedraw, backgroundBitmap,
                    atlasVars, cellColors, cells, pc, rowY, glyphX, req,
                    mergeSide, hist, sizing, split, dirty, background,
                    gridlines, dispatch, curly, shaderTime >>

\* lines 962-1148: the transform of a double-width row, the measurement
\* (which makes a glyph with colour layers a colour glyph when the font
\* allows colour glyphs, and forces grayscale), the whitespace exit.  The
\* translation of the run is made whenever the font allows colour glyphs
\* and raises before the glyph is known to be one; the bounds of the colour
\* layers are taken after grayscale is forced.
ColorGlyphMeasure ==
    /\ color.stage = "font"
    /\ \E fail \in ColorGlyphFailPoints \ {"draw"} :
         LET lr == color.lineRendition
             isColor == color.colorGlyphs /\ color.layers
             t1 == [color.target EXCEPT
                      !.transform = IF IsDoubleWidth(lr) THEN "scaled" ELSE @]
             t2 == [t1 EXCEPT !.mode = IF isColor THEN "Grayscale" ELSE @]
         IN IF color.glyph[1] = 0
            THEN fail = "none" /\ color' = [color EXCEPT !.stage = "measured"]
            ELSE IF fail = "translate"
                 THEN /\ color.colorGlyphs
                      /\ color' = LeaveDrawGlyph([color EXCEPT !.target = t1],
                                                 "error", << >>)
                 ELSE IF fail = "measure"
                 THEN /\ ~isColor
                      /\ color' = LeaveDrawGlyph([color EXCEPT !.target = t1],
                                                 "error", << >>)
                 ELSE IF fail = "bounds"
                 THEN /\ isColor
                      /\ color' = LeaveDrawGlyph(
                                        [color EXCEPT !.target = t2,
                                                      !.isColorGlyph = TRUE],
                                        "error", << >>)
                 ELSE IF GlyphRect(ColorFont(color), lr, color.glyph[1],
                                   color.glyph[2]).none
                      THEN color' = LeaveDrawGlyph(
                                        [color EXCEPT !.target = t2,
                                                      !.isColorGlyph = isColor],
                                        "whitespace", << DefaultEntry >>)
                      ELSE color' = [color EXCEPT !.stage = "measured",
                                                  !.target = t2,
                                                  !.isColorGlyph = isColor]
    /\ UNCHANGED << p, backendVars0, hist, sizing, split, dirty, background,
                    gridlines, dispatch, curly, shaderTime >>

\* lines 1159-1160 and 1229-1230: the allocation in the atlas
ColorGlyphAllocate ==
    /\ color.stage = "measured"
    /\ \E o \in AllocateOutcomes :
         LET c == [color EXCEPT !.target = AllocatedTarget(@, color.antialiasingMode, o)]
         IN color' = IF AllocateThrows(o)
                     THEN LeaveDrawGlyph(c, "error", << >>)
                     ELSE [c EXCEPT !.stage = "allocated"]
    /\ UNCHANGED << p, backendVars0, hist, sizing, split, dirty, background,
                    gridlines, dispatch, curly, shaderTime >>

\* lines 1162-1211 and 1232-1278: the transform around the rectangle, the
\* drawing, the entry
ColorGlyphDraw ==
    /\ color.stage = "allocated"
    /\ \E fail \in {"none", "draw"} :
         LET lr == color.lineRendition
             c == [color EXCEPT
                     !.target.transform =
                         IF color.glyph[1] # 0 /\ IsDoubleWidth(lr) THEN "scaled" ELSE @]
         IN IF fail = "draw"
            THEN /\ color.isColorGlyph
                 /\ color' = LeaveDrawGlyph(c, "error", << >>)
            ELSE color' = LeaveDrawGlyph(c, "normal",
                                         RecordedEntries(ColorFont(color), lr,
                                                         color.glyph[1], color.glyph[2],
                                                         color.isColorGlyph))
    /\ UNCHANGED << p, backendVars0, hist, sizing, split, dirty, background,
                    gridlines, dispatch, curly, shaderTime >>

NextColorGlyph ==
    \/ ColorFontUpdate
    \/ ColorGlyphMeasure
    \/ ColorGlyphAllocate
    \/ ColorGlyphDraw

SpecColorGlyph == InitColorGlyph /\ [][NextColorGlyph]_vars


Next ==
    \/ RenderBegin
    \/ DrawTextBegin
    \/ DrawGlyph
    \/ RowEnd
    \/ DrawTextEnd
    \/ OverflowReset
    \/ OverflowRetry
    \/ FlushQuads
    \/ ExecuteCustomShader
    \/ ChangeFont
    \/ ChangeMisc
    \/ ChangeViewport
    \/ ReleaseResources
    \/ DestroyBackendD3D

Spec == Init /\ [][Next]_vars

(***************************************************************************)
(* Properties                                                              *)
(***************************************************************************)
\* The side of the smallest atlas, a square of minArea texels
MinAtlasSide == CHOOSE n \in 1..MaxTextureDim : n * n = minArea

\* C1 as stated: Render runs the settings update if and only if the cached
\* overall generation differs from the payload's, and inside the update font
\* dependents, the custom shader pipeline and the background bitmap are
\* recreated exactly when the cached font generation, misc generation and
\* viewport cell count differ from the payload's.
C1_RecreatedExactlyWhenStampDiffers ==
    /\ hist.upd.ran = hist.upd.genDiff
    /\ hist.upd.ran =>
         /\ hist.upd.font = hist.upd.fontDiff
         /\ hist.upd.misc = hist.upd.miscDiff
         /\ hist.upd.bitmap = hist.upd.cellDiff

\* C1 amended: the update runs if and only if the overall generation
\* differs; a recreation is entered only when its own stamp differs, and in
\* an update that comes through without a resource-creation error every
\* recreation whose stamp differs is entered.
C1_RecreatedWhenStampDiffersUnlessFailed ==
    /\ hist.upd.ran = hist.upd.genDiff
    /\ hist.upd.ran =>
         /\ hist.upd.font => hist.upd.fontDiff
         /\ hist.upd.misc => hist.upd.miscDiff
         /\ hist.upd.bitmap => hist.upd.cellDiff
    /\ (hist.upd.ran /\ hist.upd.ok) =>
         /\ hist.upd.font = hist.upd.fontDiff
         /\ hist.upd.misc = hist.upd.miscDiff
         /\ hist.upd.bitmap = hist.upd.cellDiff

\* An update in which the misc generation alone differed and the shader
\* pipeline alone was recreated
C1_Witness ==
    /\ hist.upd.ran /\ hist.upd.ok
    /\ hist.upd.miscDiff /\ ~hist.upd.fontDiff /\ ~hist.upd.cellDiff
    /\ hist.upd.misc /\ ~hist.upd.font /\ ~hist.upd.bitmap

\* C2: adoption of the stamps is all-or-nothing: after an update that
\* completes every cached stamp equals the payload's; after an update that
\* fails part-way every cached stamp is what it was before the update.
C2_StampsAllOrNothing ==
    hist.upd.ran =>
        IF hist.upd.ok THEN CurrentStamps = PayloadStamps
        ELSE CurrentStamps = hist.upd.before

\* An update that recreated the font dependents and then failed, with the
\* stamps still different from the payload's
C2_Witness ==
    /\ hist.upd.ran /\ ~hist.upd.ok /\ hist.upd.font
    /\ CurrentStamps # PayloadStamps
    /\ CurrentStamps = hist.upd.before

\* What the second of two Render calls in a row on an unchanged payload is
\* claimed to do: the same cell grid and colours as the first, no settings
\* update, no atlas reset, no allocation, no rasterization
SecondRenderRepeatsFirst ==
    /\ cells = hist.prev.cells
    /\ cellColors = hist.prev.cellColors
    /\ ~hist.upd.ran
    /\ hist.nReset = 0
    /\ hist.nAlloc = 0
    /\ hist.nRaster = 0

\* C3 as stated: Render is idempotent on an unchanged payload.
C3_RenderIdempotent ==
    hist.prev.valid => SecondRenderRepeatsFirst

\* What the second call does repeat when the first went without an atlas
\* overflow reset: the glyph coordinates, the colours of the cells read
\* from inside the colour buffers, and no update, reset, allocation or
\* rasterization; the cells read from behind the buffers are left out
RepeatsInsideBuffersWithoutOverflow ==
    (hist.prev.valid /\ ~hist.prev.overflow) =>
        /\ cells = hist.prev.cells
        /\ cellColors.colors = hist.prev.cellColors.colors
        /\ cellColors.inside = hist.prev.cellColors.inside
        /\ ~hist.upd.ran
        /\ hist.nReset = 0
        /\ hist.nAlloc = 0
        /\ hist.nRaster = 0

\* Two Renders in a row on an unchanged payload, the first without
\* overflow, whose cells differ in what was read from behind the buffers
SecondRenderReadsOtherMemory ==
    /\ hist.prev.valid /\ ~hist.prev.overflow
    /\ cells = hist.prev.cells
    /\ cellColors.behind # hist.prev.cellColors.behind

\* C4: an entry once inserted stays as it is until the next atlas reset
\* (one that completes, or one that has emptied the cache and then calls
\* through a null render target), whatever is inserted or split for other
\* keys, and a lookup that finds it neither rasterizes nor allocates and
\* stamps the entry's own texcoord.
C4_EntryStableUntilReset ==
    [][ /\ \A k \in DOMAIN glyphAtlasMap :
              \/ hist'.justReset
              \/ pc \in {"drawText", "overflow"} /\ pc' = "crashed"
              \/ k \in DOMAIN glyphAtlasMap' /\ glyphAtlasMap'[k] = glyphAtlasMap[k]
        /\ (pc = "rows" /\ rowY <= Len(Rows) /\ glyphX <= Len(CurRow.glyphs)
              /\ Has(glyphAtlasMap, CurKey)) =>
             /\ hist'.nRaster = hist.nRaster
             /\ hist'.nAlloc = hist.nAlloc
             /\ rectPacker' = rectPacker
             /\ glyphAtlasMap[CurKey].shadingType # "Default" =>
                  \E c \in DOMAIN cells' : cells'[c] = glyphAtlasMap[CurKey].texcoord
      ]_vars

\* A second Render that found glyphs of the first in the cache
C4_Witness ==
    /\ hist.renders = 2
    /\ hist.nReset = 0
    /\ hist.nLookup > hist.nRaster
    /\ cells # EmptyMap

\* The packer has the dimensions of the atlas texture, as it has until a
\* resize raises (C35)
PackerInStep ==
    /\ rectPacker.width = glyphAtlas.u
    /\ rectPacker.height = glyphAtlas.v

\* C5: right after an atlas reset every cache container that holds atlas
\* placements is empty: the glyphs of every font face and line rendition,
\* the built-in glyphs and the inline bitmaps.
C5_ResetEmptiesEveryCache ==
    hist.justReset => glyphAtlasMap = EmptyMap /\ glyphAtlasBitmaps = EmptyMap

\* Right after the reset of an overflow, in a Render that had rasterized
\* and cached glyphs before it
C5_Witness ==
    /\ hist.justReset
    /\ hist.overflow
    /\ hist.nAlloc > 0
    /\ hist.nRaster > 1

\* C6: between a failed allocation and its retry there is the reset and
\* nothing else: it empties the glyph entries of every font face, line
\* rendition and of the built-in glyphs and re-initialises the packer, with
\* no lookup, rasterization or insertion in between.  (The step after the
\* failed allocation either leads to the retry or ends the Render with the
\* error of EndDraw, of _flushQuads or of the resize, or in a call through
\* a null render target; a retry is reached by that step only.)
C6_OverflowResetAtomic ==
    [][ /\ pc = "overflow" =>
              /\ pc' \in {"retry", "idle", "crashed"}
              /\ pc' = "idle" => hist'.outcome \in {"endDrawFailed", "flushFailed",
                                                    "resizeFailed"}
              /\ pc' = "crashed" => hist'.outcome = "crashed"
              /\ hist'.nLookup = hist.nLookup
              /\ hist'.nRaster = hist.nRaster
              /\ hist'.nAlloc = hist.nAlloc
              /\ req'.attempts = req.attempts
        /\ (pc' = "retry" /\ pc # "retry") =>
              /\ pc = "overflow"
              /\ glyphAtlasMap' = EmptyMap
              /\ rectPacker' = stbrp_init_target(rectPacker'.width, rectPacker'.height)
              /\ PackerInStep => rectPacker' = stbrp_init_target(glyphAtlas'.u,
                                                                glyphAtlas'.v)
      ]_vars

\* A retry about to be made in a Render that had allocated before the
\* overflow
C6_Witness ==
    /\ pc = "retry"
    /\ hist.nAlloc > 0
    /\ glyphAtlasMap = EmptyMap

\* C7: an allocation request is tried at most twice with one reset in
\* between; a failed retry ends the request with the fatal error.
C7_OneRetryPerRequest ==
    /\ req.attempts <= 2
    /\ req.resets <= 1
    /\ pc = "overflow" => req.attempts = 1 /\ req.resets = 0
    /\ pc = "retry" => req.attempts = 1 /\ req.resets = 1
    /\ hist.outcome = "fatal" => pc = "idle" /\ req.attempts = 2 /\ req.resets = 1

\* A request that ended with the fatal error after its one retry
C7_Witness ==
    /\ hist.outcome = "fatal"
    /\ req.attempts = 2
    /\ req.resets = 1

\* The request is no larger than one cell at the largest line-rendition
\* factor
OrdinaryRequest == req.w <= 2 * Font.cellW /\ req.h <= 2 * Font.cellH

\* C8 as stated: for every cell size and target size the retry after an
\* overflow reset succeeds for a request of at most 2 x 2 cells, so that
\* the fatal error is never raised for one.
C8_RetryNeverFatal ==
    /\ (pc = "retry" /\ OrdinaryRequest) =>
           req.w <= glyphAtlas.u /\ req.h <= glyphAtlas.v
    /\ hist.outcome = "fatal" => ~OrdinaryRequest

\* C8 amended: the same for cells of which two fit the side of the smallest
\* atlas (2 x cell width <= 1024 and 2 x cell height <= 1024).
C8_RetrySucceedsForSmallCells ==
    /\ (pc = "retry" /\ OrdinaryRequest
          /\ 2 * Font.cellW <= MinAtlasSide /\ 2 * Font.cellH <= MinAtlasSide) =>
           /\ req.w <= glyphAtlas.u /\ req.h <= glyphAtlas.v
           /\ stbrp_pack_rects(rectPacker, req.w, req.h).ok
    /\ (hist.outcome = "fatal" /\ OrdinaryRequest) =>
           2 * Font.cellW > MinAtlasSide \/ 2 * Font.cellH > MinAtlasSide

\* The retry of a request of exactly 2 x 2 cells of 512 x 512
C8_Witness ==
    /\ pc = "retry"
    /\ req.w = 2 * Font.cellW /\ req.h = 2 * Font.cellH
    /\ 2 * Font.cellW <= MinAtlasSide /\ 2 * Font.cellH <= MinAtlasSide

\* C9: for a target area within [minArea, maxArea] the dimensions are
\* powers of two that fit in 16 bits, cover the area, and u is v or 2 x v.
C9_DimsPowerOfTwoCoverArea ==
    sizing.stage = "dims" =>
        /\ sizing.area >= minArea /\ sizing.area <= maxArea
        /\ IsPow2(sizing.u) /\ IsPow2(sizing.v)
        /\ sizing.u < 65536 /\ sizing.v < 65536
        /\ sizing.u * sizing.v >= sizing.area
        /\ sizing.u = sizing.v \/ sizing.u = 2 * sizing.v

\* Dimensions computed for an area strictly inside the range that is not a
\* power of two, with u twice v
C9_Witness ==
    /\ sizing.stage = "dims"
    /\ sizing.area > minArea /\ sizing.area < maxArea
    /\ ~IsPow2(sizing.area)
    /\ sizing.u = 2 * sizing.v

\* The three areas of the sizing policy for the inputs drawn
SizingWant == Max(minAreaByFont(sizing.cellW, sizing.cellH),
                  minAreaByGrowth(sizing.packW, sizing.packH))

SizingCap == maxAreaByFont(sizing.targetW, sizing.targetH)

\* C10 as stated: the area is clamp(max(95 x cell area, 2 x packer area),
\* minArea, maxArea) capped at 1.25 x the surface area, and never exceeds
\* 1.25 x the surface area.
C10_AreaCappedBySurface ==
    sizing.stage \in {"area", "dims"} =>
        /\ sizing.area = Min(SizingCap, Clamp(SizingWant, minArea, maxArea))
        /\ sizing.area <= SizingCap

\* C10 amended: the cap is applied first and the clamp last: the area is
\* clamp(min(1.25 x surface area, max(95 x cell area, 2 x packer area)),
\* minArea, maxArea); it never exceeds the larger of minArea and 1.25 x the
\* surface area, and is as stated whenever 1.25 x the surface area is at
\* least minArea.
C10_AreaClampedAfterCap ==
    sizing.stage \in {"area", "dims"} =>
        LET capped == IF SizingCap < SizingWant THEN SizingCap ELSE SizingWant
        IN /\ sizing.area = (IF capped < minArea THEN minArea
                             ELSE IF capped > maxArea THEN maxArea ELSE capped)
           /\ sizing.area >= minArea /\ sizing.area <= maxArea
           /\ sizing.area <= Max(minArea, SizingCap)
           /\ SizingCap >= minArea =>
                sizing.area = Min(SizingCap, Clamp(SizingWant, minArea, maxArea))

\* An area that the cap of 1.25 x the surface area decided
C10_Witness ==
    /\ sizing.stage = "area"
    /\ SizingCap < SizingWant
    /\ SizingCap > minArea /\ SizingCap < maxArea
    /\ sizing.area = SizingCap

\* The texture area of the atlas
AtlasArea(a) == a.u * a.v

\* The step completes an atlas reset
ResetCompletes == hist'.nReset > hist.nReset

\* The step recreates the atlas texture
TextureRecreated == hist'.nResize > hist.nResize

\* C11 as stated: the atlas is never shrunk: a reset that completes does
\* not leave the texture area smaller than it was before, and the texture
\* is recreated only when its dimensions change.
C11_AtlasNeverShrinks ==
    [][ ResetCompletes =>
          /\ AtlasArea(glyphAtlas') >= AtlasArea(glyphAtlas)
          /\ TextureRecreated => glyphAtlas' # glyphAtlas
      ]_vars

\* C11 amended: a reset sizes the atlas from the packer's dimensions, which
\* are the texture's unless a resize has raised (C35).  A reset that
\* completes leaves the packer at the (u, v) it computed, whose area is not
\* smaller than the packer's before whenever 1.25 x the target surface area
\* is at least that area (a smaller surface shrinks the atlas).  It
\* recreates the texture, at (u, v), exactly when (u, v) differ from the
\* packer's dimensions before, and leaves the texture as it is otherwise:
\* while packer and texture agree, the texture area is not smaller after
\* the reset unless the cap is below it, and the texture is recreated only
\* when its dimensions change.  A reset whose resize raises leaves the
\* texture released or at (u, v), and no other step changes it.
C11_AtlasShrinksOnlyUnderCap ==
    [][ LET r == ResetGlyphAtlas
            cap == maxAreaByFont(p.targetSize.x, p.targetSize.y)
            packArea == rectPacker.width * rectPacker.height
        IN /\ ResetCompletes =>
                 /\ rectPacker' = r.rectPacker
                 /\ cap >= packArea =>
                       rectPacker'.width * rectPacker'.height >= packArea
                 /\ TextureRecreated <=>
                       \/ rectPacker'.width # rectPacker.width
                       \/ rectPacker'.height # rectPacker.height
                 /\ TextureRecreated =>
                       glyphAtlas' = [u |-> rectPacker'.width,
                                      v |-> rectPacker'.height]
                 /\ ~TextureRecreated => glyphAtlas' = glyphAtlas
                 /\ PackerInStep =>
                       /\ cap >= AtlasArea(glyphAtlas) =>
                             AtlasArea(glyphAtlas') >= AtlasArea(glyphAtlas)
                       /\ TextureRecreated <=> glyphAtlas' # glyphAtlas
                       /\ rectPacker'.width = glyphAtlas'.u
                       /\ rectPacker'.height = glyphAtlas'.v
           /\ ~ResetCompletes =>
                 /\ ~TextureRecreated
                 /\ rectPacker'.width = rectPacker.width
                 /\ rectPacker'.height = rectPacker.height
                 /\ glyphAtlas' # glyphAtlas =>
                       /\ hist'.outcome \in {"resizeFailed", "crashed"}
                       /\ r.resized
                       /\ glyphAtlas' \in {[u |-> 0, v |-> 0], r.glyphAtlas}
      ]_vars

\* A reset that left the texture as it was, after one that had created it
C11_Witness ==
    /\ hist.justReset
    /\ hist.nReset = 2
    /\ hist.nResize = 1
    /\ AtlasArea(glyphAtlas) > 0

\* A reset that completed with the packer and the texture apart: the
\* resize before it had raised
C11_WitnessAfterFailedResize ==
    /\ hist.justReset
    /\ ~PackerInStep

(***************************************************************************)
(* C12                                                                     *)
(***************************************************************************)
\* C12: a font generation change resets the atlas lazily and exactly once.
\* The settings update leaves the atlas, the packer and the glyph cache alone
\* and, when it enters the font update, leaves the pending flag set; the
\* flag is raised by nothing else.  The first step of the next _drawText then
\* resets the atlas once, before any lookup or rasterization of the frame,
\* and clears the flag, so that every lookup right after it is a miss that
\* rasterizes, and every cached glyph was rasterized in this frame.  A reset
\* happens only there or on an overflow, hence at most once per Render
\* without overflow.  (When the resize of that reset raises, the Render ends
\* with the error before any lookup, the flag stays set and the glyph cache
\* as it was; a reset that calls through a null render target ends there.)
C12_FontChangeResetsLazilyOnce ==
    [][ /\ hist'.renders > hist.renders
            => /\ UNCHANGED << glyphAtlas, rectPacker, rectPackerData,
                               glyphAtlasMap, glyphAtlasBitmaps >>
               /\ (hist'.upd.font => fontChangedResetGlyphAtlas')
               /\ (hist'.upd.font <=> (hist'.upd.fontDiff /\ renderTargetView'))
        /\ fontChangedResetGlyphAtlas' /\ ~fontChangedResetGlyphAtlas
            => hist'.renders > hist.renders /\ hist'.upd.font
        /\ pc = "drawText" /\ fontChangedResetGlyphAtlas
            => /\ hist'.nLookup = 0 /\ hist'.nRaster = 0
               /\ IF pc' = "rows"
                  THEN /\ hist'.nReset = 1
                       /\ glyphAtlasMap' = EmptyMap
                       /\ ~fontChangedResetGlyphAtlas'
                  ELSE /\ hist'.nReset = 0
                       /\ fontChangedResetGlyphAtlas'
                       /\ \/ /\ pc' = "idle"
                             /\ hist'.outcome = "resizeFailed"
                             /\ glyphAtlasMap' = glyphAtlasMap
                          \/ /\ pc' = "crashed"
                             /\ hist'.outcome = "crashed"
        /\ hist'.nReset > hist.nReset
            => \/ pc = "drawText" /\ fontChangedResetGlyphAtlas
               \/ pc = "overflow" /\ hist'.overflow
        /\ hist.justReset /\ hist'.nLookup > hist.nLookup
            => hist'.nRaster > hist.nRaster
        /\ pc' \in {"rows", "flush"} /\ ~hist'.overflow
            => /\ hist'.nReset <= 1
               /\ hist'.upd.font => hist'.nReset = 1
               /\ hist'.nReset = 1 /\ ~hist'.upd.font
                     => hist'.upd.before.fontGeneration = p.fontGen
               /\ ~fontChangedResetGlyphAtlas'
               /\ (hist'.nReset = 1
                    => Cardinality(DOMAIN glyphAtlasMap') <= 2 * hist'.nRaster) ]_vars

\* The second Render, after a font change that followed a Render which had
\* adopted its stamps: one reset, no overflow, and a glyph rasterized again
\* into a newly allocated rectangle.
C12_Witness ==
    /\ hist.renders = 2 /\ pc = "rows" /\ ~hist.overflow
    /\ hist.upd.font /\ hist.upd.before.fontGeneration = 1
    /\ hist.nReset = 1 /\ hist.nRaster >= 1 /\ hist.nAlloc >= 1
    /\ glyphAtlasMap # EmptyMap


(***************************************************************************)
(* C13                                                                     *)
(***************************************************************************)
\* C13 as stated: ReleaseResources forces full resource recreation.  A
\* settings update that starts from a cleared generation stamp and comes
\* through has recreated the font dependents, the custom shader pipeline and
\* the background bitmap.
C13_ReleaseForcesFullRecreation ==
    hist.upd.ran /\ hist.upd.ok /\ hist.upd.before.generation = 0
        => hist.upd.font /\ hist.upd.misc /\ hist.upd.bitmap

\* C13, amended: ReleaseResources drops both views and clears the overall
\* generation stamp only.  The next Render therefore runs the settings
\* update for every payload; an update that comes through has created the
\* render-target view, and the custom one when a custom shader is installed,
\* while the font dependents, the shader pipeline and the background bitmap
\* are recreated exactly when their own stamp differs.  No Render reaches
\* the drawing without a render-target view.
C13_ReleaseRecreatesViewsOnly ==
    [][ /\ pc = "idle" /\ pc' = "idle" /\ p' = p /\ hist'.renders = hist.renders
            => /\ ~renderTargetView' /\ ~customRenderTargetView'
               /\ generation' = 0
               /\ UNCHANGED << fontGeneration, miscGeneration, targetSize,
                               viewportCellCount, customPixelShader,
                               backgroundBitmap, atlasVars >>
        /\ hist'.renders > hist.renders /\ generation = 0
            => /\ hist'.upd.ran
               /\ hist'.upd.ok
                    => /\ renderTargetView'
                       /\ customPixelShader' => customRenderTargetView'
                       /\ hist'.upd.font <=> fontGeneration # p.fontGen
                       /\ hist'.upd.misc <=> miscGeneration # p.miscGen
                       /\ hist'.upd.bitmap
                            <=> viewportCellCount # p.viewportCellCount
        /\ pc' = "drawText"
            => renderTargetView' /\ (customPixelShader' => customRenderTargetView') ]_vars

\* A Render whose update started from the stamps ReleaseResources leaves
\* after an earlier Render (generation cleared, the others adopted), came
\* through, and recreated none of the three stamp-keyed resources.
C13_Witness ==
    /\ hist.upd.ran /\ hist.upd.ok
    /\ hist.upd.before.generation = 0 /\ hist.upd.before.fontGeneration # 0
    /\ ~hist.upd.font /\ ~hist.upd.misc /\ ~hist.upd.bitmap
    /\ renderTargetView /\ pc = "rows"


(***************************************************************************)
(* C14                                                                     *)
(***************************************************************************)
\* C14: RequiresContinuousRedraw describes the installed post-process
\* shader.  In every reachable state it is true only if a custom pixel
\* shader is installed, and a misc update that ends without a shader, or
\* with the retro effect, leaves it false.
C14_ContinuousRedrawDescribesShader ==
    /\ requiresContinuousRedraw => customPixelShader
    /\ hist.upd.misc /\ p.misc \in {"none", "retro"} => ~requiresContinuousRedraw


(***************************************************************************)
(* C15                                                                     *)
(***************************************************************************)
\* Whether the shader of misc settings m is broken for _recreateCustomShader:
\* its compilation failed, or it compiled, was created, and its image failed
\* to load
ShaderBroken(m, fail, hr, image) ==
    \/ hr = "error"
    \/ m = "customImage" /\ image = "failed" /\ fail # "pixelShader"

\* C15: shader failures are recoverable and degrade to no post-process.  From
\* every state in which a Render would call it, _recreateCustomShader with a shader that fails to
\* compile or whose image fails to load raises no error, calls the warning
\* callback once per failure and ends with no custom pixel shader; a Render
\* whose settings update warned has no custom pixel shader, never enters the
\* post-process stage, and has dispatched the compositor when it returns.
C15_ShaderFailureDegrades ==
    /\ pc = "idle" /\ SettingsChanged /\ miscGeneration # p.miscGen
         => \A m \in {"custom", "customImage"}, fail \in FailPoints,
               hr \in {"ok", "error"}, reflect \in {"failed", "used", "unused"},
               image \in {"ok", "failed"} :
              LET s == RecreateCustomShader(SettingsState, m, fail, hr, reflect, image)
              IN ShaderBroken(m, fail, hr, image)
                   => /\ ~s.failed
                      /\ ~s.customPixelShader
                      /\ ~s.customRenderTargetView
                      /\ s.warnings = (IF hr = "error" THEN 1 ELSE 0)
                                      + (IF m = "customImage" /\ image = "failed"
                                         THEN 1 ELSE 0)
    /\ hist.upd.warnings >= 1
         => /\ ~customPixelShader
            /\ ~customRenderTargetView
            /\ pc # "customShader"
            /\ hist.outcome = "ok" => hist.nDispatch >= 1

\* A Render that returned normally after both the compilation and the image
\* load of its shader had failed.
C15_Witness ==
    /\ pc = "idle" /\ hist.outcome = "ok" /\ hist.upd.misc
    /\ hist.upd.warnings = 2 /\ hist.nDispatch = 1
    /\ p.misc = "customImage" /\ ~customPixelShader


(***************************************************************************)
(* C16                                                                     *)
(***************************************************************************)
\* C16: one compositor dispatch per Render, after the text pass.  No
\* dispatch has been issued while the text pass of a Render is still at its
\* rows (an overflow reset included), and a Render that has reached the
\* post-process pass or has returned normally has issued exactly one.
C16_OneDispatchAfterTextPass ==
    /\ pc \in {"drawText", "rows", "overflow", "retry", "flush"}
         => hist.nDispatch = 0
    /\ pc = "customShader" \/ (pc = "idle" /\ hist.outcome = "ok")
         => hist.nDispatch = 1


(***************************************************************************)
(* C17                                                                     *)
(***************************************************************************)
\* Whether the ink box of glyph g, drawn with its pen at the left edge of a
\* cell of a single-width row, lies inside that cell.  A built-in glyph
\* (font face 0) fills its cell.
InkInsideCell(font, g) ==
    g[1] = 0
    \/ LET b == GlyphRunBounds(font, g[2])
       IN /\ b.left < b.right /\ b.top < b.bottom
          /\ b.left >= 0 /\ b.right <= font.cellW
          /\ font.baseline + b.top >= 0 /\ font.baseline + b.bottom <= font.cellH

\* The column at whose left edge the pen is for the glyph at position x
PenColumn(font, row, x) == BaselineX(font, row.glyphs, x - 1) \div font.cellW

\* C17: a glyph is stamped into the cell of its own column and row.  When
\* the text pass of a Render without overflow is through, every
\* non-whitespace glyph of a single-width row whose ink box lies inside its
\* cell (c, y) has its atlas coordinates in cell (c, y), wherever in the cell
\* the ink starts; and in a frame of single-width rows no other cell is
\* stamped.
C17_StampedIntoOwnCell ==
    pc = "flush" /\ ~hist.overflow
      => /\ \A y \in 1..Len(Rows) :
              Rows[y].lineRendition = "SingleWidth"
                => \A x \in 1..Len(Rows[y].glyphs) :
                     LET g == Rows[y].glyphs[x]
                         key == << g[1], "SingleWidth", g[2] >>
                         own == << PenColumn(Font, Rows[y], x), y - 1 >>
                     IN /\ Has(glyphAtlasMap, key)
                        /\ glyphAtlasMap[key].shadingType # "Default"
                        /\ InkInsideCell(Font, g)
                        => /\ Has(cells, own)
                           /\ cells[own] = glyphAtlasMap[key].texcoord
         /\ (\A y \in 1..Len(Rows) : Rows[y].lineRendition = "SingleWidth")
              => \A k \in DOMAIN cells :
                   \E y \in 1..Len(Rows) :
                     \E x \in 1..Len(Rows[y].glyphs) :
                        k = << PenColumn(Font, Rows[y], x), y - 1 >>


(***************************************************************************)
(* C18                                                                     *)
(***************************************************************************)
\* The text pass is at a glyph of a row
AtGlyph == pc = "rows" /\ rowY <= Len(Rows) /\ glyphX <= Len(CurRow.glyphs)

\* The ink box of the font's glyph is empty (line 1145)
EmptyInk(lr, glyphIndex) ==
    LET b == GlyphWorldBounds(Font, lr, glyphIndex)
    IN b.left >= b.right \/ b.top >= b.bottom

\* C18: whitespace glyphs cost nothing and draw nothing.  A cache miss on a
\* font glyph whose ink box is measured and found empty files an entry of
\* shading type Default with an empty rectangle, leaves the packer and the
\* atlas as they are and allocates nothing (when the measurement raises or
\* is called through a null render target there is no ink box, and nothing
\* is filed or allocated either); and
\* whenever the glyph just handled has an entry of shading type Default, the
\* cell grid is left as it was.
C18_WhitespaceCostsNothing ==
    [][ /\ AtGlyph /\ ~Has(glyphAtlasMap, CurKey) /\ CurGlyph[1] # 0
           /\ EmptyInk(CurRow.lineRendition, CurGlyph[2])
           /\ hist'.outcome # "running"
            => /\ hist'.outcome \in {"measureFailed", "crashed"}
               /\ UNCHANGED << rectPacker, rectPackerData, glyphAtlas,
                               glyphAtlasMap, cells >>
               /\ hist'.nAlloc = hist.nAlloc
        /\ AtGlyph /\ ~Has(glyphAtlasMap, CurKey) /\ CurGlyph[1] # 0
           /\ EmptyInk(CurRow.lineRendition, CurGlyph[2])
           /\ hist'.outcome = "running"
            => /\ Has(glyphAtlasMap', CurKey)
               /\ glyphAtlasMap'[CurKey].shadingType = "Default"
               /\ glyphAtlasMap'[CurKey].size = << 0, 0 >>
               /\ UNCHANGED << rectPacker, rectPackerData, glyphAtlas, cells >>
               /\ hist'.nAlloc = hist.nAlloc
               /\ hist'.nRaster = hist.nRaster + 1
               /\ pc' = "rows" /\ glyphX' = glyphX + 1
        /\ (AtGlyph \/ (pc = "retry" /\ req.kind = "glyph"))
           /\ Has(glyphAtlasMap', CurKey)
           /\ glyphAtlasMap'[CurKey].shadingType = "Default"
            => cells' = cells ]_vars

\* The text pass of the first frame is through: its whitespace glyph in
\* column 1 has a Default entry, its cell was not stamped, and of the three
\* cache misses only two allocated.
C18_Witness ==
    /\ pc = "flush" /\ p.frame = 1 /\ ~hist.overflow
    /\ Has(glyphAtlasMap, << 1, "SingleWidth", 0 >>)
    /\ glyphAtlasMap[<< 1, "SingleWidth", 0 >>].shadingType = "Default"
    /\ ~Has(cells, << 1, 0 >>) /\ Has(cells, << 0, 0 >>)
    /\ hist.nRaster = 3 /\ hist.nAlloc = 2


(***************************************************************************)
(* C19, C20                                                                *)
(***************************************************************************)
\* The two halves a split has filed
SplitTop == split.entries["DoubleHeightTop"]

SplitBottom == split.entries["DoubleHeightBottom"]

\* C19: the double-height split conserves the glyph.  For an entry of
\* height H, whatever the font's baseline and the entry's offset and
\* whichever half the row being drawn is, the heights of the two halves lie
\* in 0..H and add up to H, the top half keeps the texcoord, and the bottom
\* half starts in the atlas where the top half ends.
C19_SplitConservesGlyph ==
    split.stage = "done" =>
        LET H == split.e.size[2]
        IN /\ SplitTop.size[2] \in 0..H /\ SplitBottom.size[2] \in 0..H
           /\ SplitTop.size[2] + SplitBottom.size[2] = H
           /\ SplitTop.size[1] = split.e.size[1]
           /\ SplitBottom.size[1] = split.e.size[1]
           /\ SplitTop.texcoord = split.e.texcoord
           /\ SplitBottom.texcoord[1] = split.e.texcoord[1]
           /\ SplitBottom.texcoord[2] = SplitTop.texcoord[2] + SplitTop.size[2]

\* A glyph of a bottom row that straddles the split line: both halves are
\* non-empty.
C19_Witness ==
    /\ split.stage = "done" /\ split.lineRendition = "DoubleHeightBottom"
    /\ SplitTop.size[2] > 0 /\ SplitBottom.size[2] > 0
    /\ split.e.texcoord[2] > 0

\* C20: after a double-height split a half of height zero has shading type
\* Default and a half of non-zero height keeps the shading type of the
\* rasterized glyph, so no half with another shading type than Default has
\* height zero.
C20_EmptyHalfIsDefault ==
    split.stage = "done" =>
        \A half \in {SplitTop, SplitBottom} :
            /\ half.size[2] = 0 => half.shadingType = "Default"
            /\ half.size[2] # 0 => half.shadingType = split.e.shadingType
            /\ half.shadingType # "Default" => half.size[2] # 0

\* A glyph that lies in the bottom half only: the top half is empty and
\* Default, the bottom half keeps the glyph's shading type.
C20_Witness ==
    /\ split.stage = "done" /\ split.e.shadingType = "TextClearType"
    /\ SplitTop.size[2] = 0 /\ SplitTop.shadingType = "Default"
    /\ SplitBottom.size[2] > 0 /\ SplitBottom.shadingType = "TextClearType"


(***************************************************************************)
(* C21                                                                     *)
(***************************************************************************)
\* The key of the other half of a double-height key
OtherHalf(key) ==
    << key[1],
       IF key[2] = "DoubleHeightTop" THEN "DoubleHeightBottom" ELSE "DoubleHeightTop",
       key[3] >>

\* The text pass is at a glyph, or at the retry of a glyph's allocation
HandlingGlyph == AtGlyph \/ (pc = "retry" /\ req.kind = "glyph")

\* C21: rasterizing a non-whitespace glyph for one double-height rendition
\* populates both halves.  The step that allocates for a glyph of a
\* double-height row and rasterizes it allocates once and files the top and
\* the bottom half, which tile the one rectangle allocated (when the
\* drawing raises, the glyph is not rasterized and nothing is filed); every
\* rasterized double-height entry of the cache has its other half in the
\* cache; and a lookup that hits allocates nothing and leaves the packer
\* alone.
C21_BothHalvesFromOneRectangle ==
    [][ /\ HandlingGlyph /\ IsDoubleHeight(CurRow.lineRendition)
           /\ hist'.nAlloc > hist.nAlloc /\ hist'.outcome # "running"
            => glyphAtlasMap' = glyphAtlasMap
        /\ HandlingGlyph /\ IsDoubleHeight(CurRow.lineRendition)
           /\ hist'.nAlloc > hist.nAlloc /\ hist'.outcome = "running"
            => LET top == glyphAtlasMap'[<< CurKey[1], "DoubleHeightTop", CurKey[3] >>]
                   bottom == glyphAtlasMap'[<< CurKey[1], "DoubleHeightBottom", CurKey[3] >>]
                   r == GlyphRect(Font, CurRow.lineRendition, CurKey[1], CurKey[3])
               IN /\ Has(glyphAtlasMap', CurKey)
                  /\ Has(glyphAtlasMap', OtherHalf(CurKey))
                  /\ hist'.nAlloc = hist.nAlloc + 1
                  /\ top.texcoord[1] = bottom.texcoord[1]
                  /\ bottom.texcoord[2] = top.texcoord[2] + top.size[2]
                  /\ top.size[1] = r.w /\ bottom.size[1] = r.w
                  /\ top.size[2] + bottom.size[2] = r.h
        /\ \A k \in DOMAIN glyphAtlasMap' :
             IsDoubleHeight(k[2]) /\ glyphAtlasMap'[k].size[1] > 0
               => Has(glyphAtlasMap', OtherHalf(k))
        /\ AtGlyph /\ Has(glyphAtlasMap, CurKey)
            => /\ hist'.nAlloc = hist.nAlloc /\ hist'.nRaster = hist.nRaster
               /\ UNCHANGED << rectPacker, glyphAtlasMap >> ]_vars

\* The bottom row of a frame whose top row rasterized the same two glyphs:
\* the first glyph of the bottom row was a hit, two allocations in all.
C21_Witness ==
    /\ pc = "rows" /\ p.frame = 2 /\ rowY = 2 /\ glyphX = 2 /\ ~hist.overflow
    /\ hist.nLookup = 3 /\ hist.nRaster = 2 /\ hist.nAlloc = 2
    /\ Has(glyphAtlasMap, << 0, "DoubleHeightBottom", 9472 >>)
    /\ Has(cells, << 0, 1 >>)


(***************************************************************************)
(* C22, C23                                                                *)
(***************************************************************************)
\* The ink box of the glyph cached under key k = << font face, line
\* rendition, glyph index >>, under the transform of its row
OverlapBounds(k) == GlyphWorldBounds(Font, k[2], k[3])

\* The glyph cached under k is a font glyph with a non-empty ink box
OverlapHasInk(k) ==
    /\ k[1] # 0
    /\ OverlapBounds(k).left < OverlapBounds(k).right
    /\ OverlapBounds(k).top < OverlapBounds(k).bottom

\* C22: the ligature overlap flag with ligatures enabled.  A rasterized
\* font glyph at least one cell wide whose ink box reaches -halfCellWidth on
\* the left or advanceWidth + halfCellWidth on the right (both doubled on
\* double-width rows) has overlapSplit set; a glyph narrower than one cell,
\* a whitespace glyph and a built-in glyph have it clear.
C22_OverlapFlagWithLigatures ==
    Font.ligatures =>
        \A k \in DOMAIN glyphAtlasMap :
            LET b == OverlapBounds(k)
                s == IF IsDoubleWidth(k[2]) THEN 2 ELSE 1
                half == Font.cellW \div 2
            IN /\ (/\ OverlapHasInk(k)
                    /\ b.right - b.left >= Font.cellW
                    /\ \/ b.left <= -half * s
                       \/ b.right >= (Font.advanceWidth + half) * s)
                   => glyphAtlasMap[k].overlapSplit
               /\ (~OverlapHasInk(k) \/ b.right - b.left < Font.cellW)
                   => ~glyphAtlasMap[k].overlapSplit

\* The two-cell ligature is cached for a double-width row, ligatures
\* enabled, and so is, for a single-width row, the glyph that reaches the
\* left threshold but is narrower than a cell: the flag is set for the
\* first and clear for the second.
C22_Witness ==
    /\ Font.ligatures
    /\ ligatureOverhangTrigger[1] < 0
    /\ Has(glyphAtlasMap, << 1, "DoubleWidth", 3 >>)
    /\ glyphAtlasMap[<< 1, "DoubleWidth", 3 >>].overlapSplit
    /\ Has(glyphAtlasMap, << 1, "SingleWidth", 6 >>)
    /\ ~glyphAtlasMap[<< 1, "SingleWidth", 6 >>].overlapSplit

\* C23: with font ligatures disabled, overlap splitting never triggers,
\* whatever the ink box and the line rendition: no cached entry has
\* overlapSplit set.
C23_NoOverlapWithoutLigatures ==
    ~Font.ligatures =>
        \A k \in DOMAIN glyphAtlasMap : ~glyphAtlasMap[k].overlapSplit


\* The whole target surface as a rectangle
WholeTarget == [left |-> 0, top |-> 0, right |-> p.targetSize.x,
                bottom |-> p.targetSize.y]

\* A Render has just returned
RenderReturned == pc = "idle" /\ hist.outcome = "ok"

\* C24: after a Render that ran the post-process pass (a custom pixel shader
\* is installed) the payload's dirty rectangle is the whole target surface,
\* whatever rows were invalidated; after a Render without a custom pixel
\* shader the rectangle is as the text pass left it: the left and right the
\* caller gave, and the top and bottom the caller gave joined with the dirty
\* span of the text pass.
C24_PostProcessReportsWholeTarget ==
    RenderReturned =>
        IF customPixelShader
        THEN dirty.rect = WholeTarget
        ELSE /\ dirty.rect.left = dirty.given.left
             /\ dirty.rect.right = dirty.given.right
             /\ IF dirty.acc.top < dirty.acc.bottom
                THEN /\ dirty.rect.top = Min(dirty.given.top, dirty.acc.top)
                     /\ dirty.rect.bottom = Max(dirty.given.bottom, dirty.acc.bottom)
                ELSE /\ dirty.rect.top = dirty.given.top
                     /\ dirty.rect.bottom = dirty.given.bottom

\* A Render with a custom pixel shader and no row invalidated has returned
\* with the whole target reported, which is not what the caller gave
C24_Witness ==
    /\ RenderReturned
    /\ customPixelShader
    /\ dirty.invalidatedRows.start >= dirty.invalidatedRows.end
    /\ dirty.rect = WholeTarget
    /\ dirty.rect # dirty.given

\* A Render without a custom pixel shader has returned with a rectangle
\* that is not the whole target
C24_WitnessNoShader ==
    /\ RenderReturned
    /\ ~customPixelShader
    /\ dirty.rect # WholeTarget


\* The least and the greatest of a non-empty set of integers
Least(S) == CHOOSE a \in S : \A b \in S : a <= b

Greatest(S) == CHOOSE a \in S : \A b \in S : a >= b

\* The rows of the frame that the caller marked invalidated
InvalidatedRows ==
    { y \in DOMAIN dirty.rows :
        dirty.invalidatedRows.start <= y - 1 /\ y - 1 < dirty.invalidatedRows.end }

\* The text pass of a Render is over and nothing has written the dirty
\* rectangle since
AfterDrawText == pc \in {"flush", "customShader"}

\* The text pass of a Render is under way
InDrawText == pc \in {"drawText", "rows", "overflow", "retry"}

\* The top of the ink of the glyph handled in this step, from its entry
DirtiedTop(e) == ((rowY - 1) * Font.cellH + Font.baseline) + e.offset[2]

\* C25: after _drawText the payload's dirty rectangle has the top and bottom
\* of the smallest span that encloses the span the caller gave and the
\* spans of exactly the rows the caller marked invalidated (the caller's
\* top and bottom if no row is marked), and the left and right the caller
\* gave; during the text pass the rectangle never shrinks, and a row's span
\* changes only when a glyph with ink is stamped on that row, to the smallest
\* span enclosing the old span and the glyph's [t, t + height).
C25_DirtyIsUnionOfInvalidatedRows ==
    /\ [](AfterDrawText =>
            /\ dirty.rect.left = dirty.given.left
            /\ dirty.rect.right = dirty.given.right
            /\ IF InvalidatedRows = {}
               THEN /\ dirty.rect.top = dirty.given.top
                    /\ dirty.rect.bottom = dirty.given.bottom
               ELSE /\ dirty.rect.top =
                          Min(dirty.given.top,
                              Least({ dirty.rows[y].top : y \in InvalidatedRows }))
                    /\ dirty.rect.bottom =
                          Max(dirty.given.bottom,
                              Greatest({ dirty.rows[y].bottom : y \in InvalidatedRows })))
    /\ [][InDrawText =>
            /\ dirty'.rect.top <= dirty.rect.top
            /\ dirty'.rect.bottom >= dirty.rect.bottom
            /\ \A y \in DOMAIN dirty.rows :
                 dirty'.rows[y] # dirty.rows[y] =>
                   /\ y = rowY
                   /\ glyphX' = glyphX + 1
                   /\ glyphAtlasMap'[CurKey].shadingType # "Default"
                   /\ LET e == glyphAtlasMap'[CurKey]
                      IN /\ dirty'.rows[y].top = Min(dirty.rows[y].top, DirtiedTop(e))
                         /\ dirty'.rows[y].bottom =
                              Max(dirty.rows[y].bottom, DirtiedTop(e) + e.size[2])]_vars

\* The text pass of a frame of two rows is over: only the second row was
\* marked invalidated, glyphs widened the spans of both rows from nothing,
\* and the dirty rectangle is no longer what the caller gave
C25_Witness ==
    /\ AfterDrawText
    /\ Len(Rows) = 2
    /\ dirty.invalidatedRows = [start |-> 1, end |-> 2]
    /\ dirty.rect # dirty.given
    /\ \A y \in DOMAIN dirty.rows :
          /\ dirty.rows[y] # NoDirtySpan
          /\ dirty.rows[y] # RowSpans(Font, Rows, "cells")[y]


\* The text pass is at a soft-font character outside the soft-font pattern
\* table of the payload (which is empty if no soft font is configured),
\* about to look it up, resetting the atlas for its allocation or retrying
\* the allocation
AtOutsideSoftFontChar ==
    /\ pc \in {"rows", "overflow", "retry"}
    /\ rowY <= Len(Rows)
    /\ glyphX <= Len(CurRow.glyphs)
    /\ CurGlyph[1] = 0
    /\ CurGlyph[2] >= SoftFontBase
    /\ CurGlyph[2] < SoftFontBase + 96
    /\ CurGlyph[2] - SoftFontBase >= p.softFontChars

BuiltinRectFits ==
    LET w == Font.cellW * (IF CurRow.lineRendition # "SingleWidth" THEN 2 ELSE 1)
        h == Font.cellH * (IF CurRow.lineRendition \in {"DoubleHeightTop",
                                                         "DoubleHeightBottom"}
                           THEN 2 ELSE 1)
    IN w <= rectPacker.width /\ h <= rectPacker.height

C26_WitnessConfigured ==
    /\ AtOutsideSoftFontChar
    /\ pc = "rows"
    /\ p.softFontChars > 0
    /\ Has(glyphAtlasMap, CurKey)
    /\ glyphAtlasMap[CurKey].shadingType = "Default"

C26_WitnessDoubleHeight ==
    /\ AtOutsideSoftFontChar
    /\ pc = "rows"
    /\ IsDoubleHeight(CurRow.lineRendition)
    /\ Has(glyphAtlasMap, CurKey)

\* C27: after _drawBackground every cell (x, y) of the viewport has the
\* background and the foreground colour the payload's colour buffers hold
\* at index y * columns + x, and the no-glyph sentinel as glyph coordinates.
C27_GridProjectsViewport ==
    background.stage = "done" =>
        /\ background.present
        /\ LET i == background.y * background.cellCount.x + background.x
           IN /\ background.cell.background = << "background", i >>
              /\ background.cell.foreground = << "foreground", i >>
              /\ background.cell.glyphX = NoGlyph
              /\ background.cell.glyphY = NoGlyph


\* The span of the decoration before clipping, for the row at hand: the top
\* of its text cell (the row above for a DoubleHeightBottom row) plus the
\* position, doubled on a double-height row, and as high as the height,
\* doubled likewise
DecorationTop ==
    LET k == IF gridlines.lineRendition \in {"DoubleHeightTop", "DoubleHeightBottom"}
             THEN 2 ELSE 1
        cellTop == IF gridlines.lineRendition = "DoubleHeightBottom"
                   THEN (gridlines.y - 1) * Font.cellH
                   ELSE gridlines.y * Font.cellH
    IN cellTop + k * gridlines.pos.position

DecorationBottom ==
    DecorationTop
    + (IF gridlines.lineRendition \in {"DoubleHeightTop", "DoubleHeightBottom"}
       THEN 2 ELSE 1) * gridlines.pos.height

\* C28: the quad of a horizontal decoration line on a DoubleHeightTop row
\* never reaches below the row's bottom edge, that on a DoubleHeightBottom
\* row never above the row's top edge, a quad is never empty, and a
\* decoration with nothing left between those edges emits no quad.
C28_DecorationsStayInTheirHalf ==
    gridlines.stage = "done" =>
        LET rowTop == gridlines.y * Font.cellH
            rowBottom == rowTop + Font.cellH
            q == gridlines.quad
        IN /\ (q.emitted /\ gridlines.lineRendition = "DoubleHeightTop" =>
                 q.top + q.height <= rowBottom)
           /\ (q.emitted /\ gridlines.lineRendition = "DoubleHeightBottom" =>
                 q.top >= rowTop)
           /\ (q.emitted => q.height > 0)
           /\ (gridlines.lineRendition = "DoubleHeightTop"
               /\ (DecorationTop >= rowBottom \/ DecorationBottom <= DecorationTop)
                 => ~q.emitted)
           /\ (gridlines.lineRendition = "DoubleHeightBottom"
               /\ (DecorationBottom <= rowTop \/ DecorationBottom <= DecorationTop)
                 => ~q.emitted)

\* A decoration of a DoubleHeightTop row that straddles the row's bottom
\* edge was emitted, cut at the edge
C28_Witness ==
    /\ gridlines.stage = "done"
    /\ gridlines.lineRendition = "DoubleHeightTop"
    /\ gridlines.quad.emitted
    /\ DecorationBottom > (gridlines.y + 1) * Font.cellH
    /\ gridlines.quad.top + gridlines.quad.height = (gridlines.y + 1) * Font.cellH

\* A decoration of a DoubleHeightBottom row that straddles the row's top
\* edge was emitted, cut at the edge
C28_WitnessBottom ==
    /\ gridlines.stage = "done"
    /\ gridlines.lineRendition = "DoubleHeightBottom"
    /\ gridlines.quad.emitted
    /\ DecorationTop < gridlines.y * Font.cellH
    /\ gridlines.quad.top = gridlines.y * Font.cellH


\* C29: the custom render-target view is seen to after the custom shader
\* was recreated, so that when a settings update has completed (the Render
\* is past it), an installed custom pixel shader has its render-target view
\* and its offscreen texture; at any time a custom render-target view
\* belongs to an installed shader and has its offscreen texture; and the
\* post-process pass runs only with a custom pixel shader installed.
C29_ShaderBeforeItsView ==
    /\ (pc # "idle" /\ customPixelShader
          => customRenderTargetView /\ customOffscreenTexture)
    /\ (customRenderTargetView => customPixelShader /\ customOffscreenTexture)
    /\ (pc = "customShader" => customPixelShader)

\* A Render is past a settings update that recreated the custom shader and
\* then created its render-target view
C29_Witness ==
    /\ pc = "drawText"
    /\ hist.upd.ran /\ hist.upd.ok /\ hist.upd.misc
    /\ customPixelShader
    /\ customRenderTargetView
    /\ customOffscreenTexture

\* A Render is past a settings update that created the render-target view
\* of a shader installed before, which ReleaseResources had dropped
C29_WitnessRelease ==
    /\ pc = "drawText"
    /\ hist.upd.ran /\ hist.upd.ok /\ ~hist.upd.misc
    /\ ~hist.upd.miscDiff
    /\ customPixelShader
    /\ customRenderTargetView


\* C30: the thread-group grid dispatched covers the whole target: eight
\* times the group count in x is at least the target's width and eight
\* times the group count in y at least its height.
C30_DispatchCoversTarget ==
    dispatch.stage = "done" =>
        /\ dispatch.groups.x * 8 >= p.targetSize.x
        /\ dispatch.groups.y * 8 >= p.targetSize.y


(***************************************************************************)
(* C31                                                                     *)
(***************************************************************************)
\* C31: every cell-grid write of _drawText is in bounds.  The index of
\* every cell computed for a write of the Render lies inside the grid:
\* 0 <= cx < 120 and 0 <= cy < 30.
C31_CellIndexInBounds ==
    \A c \in hist.written : InGrid(c)


(***************************************************************************)
(* C32                                                                     *)
(***************************************************************************)
\* The texcoords of the cache entries that are live: those of the entries
\* with ink inserted since the most recent atlas reset
LiveTexcoords ==
    { glyphAtlasMap[k].texcoord :
        k \in { k \in DOMAIN glyphAtlasMap :
                  glyphAtlasMap[k].shadingType # "Default" } }

\* C32: no stale atlas coordinates reach the compositor.  When the text
\* pass has ended and the cell grid is about to be uploaded and dispatched,
\* every cell that holds glyph coordinates holds the texcoord of a cache
\* entry that is live at that moment.
C32_NoStaleCoordinates ==
    pc = "flush" => \A c \in DOMAIN cells : cells[c] \in LiveTexcoords


(***************************************************************************)
(* C33                                                                     *)
(***************************************************************************)
\* The keys of the live glyph entries with ink
InkKeys == { k \in DOMAIN glyphAtlasMap : glyphAtlasMap[k].shadingType # "Default" }

\* The atlas rectangle of the entry at key k: [left, right) x [top, bottom)
AtlasRect(k) ==
    LET e == glyphAtlasMap[k]
    IN [left |-> e.texcoord[1], top |-> e.texcoord[2],
        right |-> e.texcoord[1] + e.size[1], bottom |-> e.texcoord[2] + e.size[2]]

RectsDisjoint(a, b) ==
    \/ a.right <= b.left
    \/ b.right <= a.left
    \/ a.bottom <= b.top
    \/ b.bottom <= a.top

\* k1 and k2 are the top and the bottom half of one double-height glyph
HalvesOfOneGlyph(k1, k2) ==
    /\ k1[1] = k2[1]
    /\ k1[3] = k2[3]
    /\ k1[2] = "DoubleHeightTop"
    /\ k2[2] = "DoubleHeightBottom"

\* C33 as stated: live atlas placements never overlap.  In every state the
\* atlas rectangle of every live entry with ink is non-empty and lies inside
\* the atlas texture, any two of them are disjoint, and the two halves of
\* one double-height glyph are side by side vertically.
C33_PlacementsNeverOverlap ==
    /\ \A k \in InkKeys :
          /\ 0 <= AtlasRect(k).left /\ AtlasRect(k).left < AtlasRect(k).right
          /\ 0 <= AtlasRect(k).top /\ AtlasRect(k).top < AtlasRect(k).bottom
          /\ AtlasRect(k).right <= glyphAtlas.u
          /\ AtlasRect(k).bottom <= glyphAtlas.v
    /\ \A k1, k2 \in InkKeys :
          /\ k1 # k2 => RectsDisjoint(AtlasRect(k1), AtlasRect(k2))
          /\ HalvesOfOneGlyph(k1, k2) =>
                /\ AtlasRect(k1).left = AtlasRect(k2).left
                /\ AtlasRect(k1).right = AtlasRect(k2).right
                /\ AtlasRect(k1).bottom = AtlasRect(k2).top


(***************************************************************************)
(* C34                                                                     *)
(***************************************************************************)
\* C34: the offscreen drawing session is properly bracketed across Render
\* calls, failed ones included.  In no Render is BeginDraw issued on a
\* render target that has one outstanding, is anything drawn on the atlas
\* render target without a BeginDraw outstanding on it, or is the render
\* target replaced while a BeginDraw is outstanding on it; and after a
\* Render that returned normally no session is open.
C34_SessionBracketed ==
    /\ ~hist.beganTwice
    /\ ~hist.drawnOutside
    /\ ~hist.replacedOpen
    /\ hist.outcome = "ok" => (~d2dBeganDrawing /\ ~d2dRenderTarget.drawing)


\* C35: packer and texture stay in step.  After every atlas reset that
\* completes, the rectangle packer's width and height equal the atlas
\* texture's dimensions (u, v), both powers of two, the packer is empty and
\* its node storage has at least u nodes; between resets the packer's
\* dimensions never change.
C35_PackerAndTextureInStep ==
    [][/\ hist'.justReset =>
              /\ rectPacker'.width = glyphAtlas'.u
              /\ rectPacker'.height = glyphAtlas'.v
              /\ IsPow2(glyphAtlas'.u)
              /\ IsPow2(glyphAtlas'.v)
              /\ rectPacker' = stbrp_init_target(glyphAtlas'.u, glyphAtlas'.v)
              /\ rectPackerData' >= glyphAtlas'.u
       /\ (rectPacker'.width # rectPacker.width
           \/ rectPacker'.height # rectPacker.height) => hist'.justReset]_vars


\* C36: the curly underline never clips out of the cell.  For every font
\* metric set the geometry computed on a font change has height >= 3,
\* position >= 0 and position + height <= cell height, and the values
\* stored as 16-bit unsigned integers equal the computed ones.
C36_CurlyUnderlineInsideCell ==
    curly.stage = "font" =>
        /\ curly.geometry.height >= 3
        /\ curly.geometry.position >= 0
        /\ curly.geometry.position + curly.geometry.height <= curly.font.cellHeight
        /\ curly.geometry.storedPosition = curly.geometry.position
        /\ curly.geometry.storedHeight = curly.geometry.height


\* C37: the time handed to the custom shader stays in the accurately
\* representable range.  For every counter frequency and counter value the
\* time is the counter modulo (frequency x 1000) converted to seconds:
\* non-negative, below 1000 seconds, and the modulo result converts to a
\* 32-bit signed integer without overflow.
C37_ShaderTimeInRange ==
    shaderTime.stage = "time" =>
        /\ FitsInt(shaderTime.rem)
        /\ shaderTime.ticks >= 0
        /\ BigLess(ToBig(shaderTime.ticks), shaderTime.mod)
        /\ ToBig(shaderTime.ticks) = shaderTime.rem


\* C38: forcing grayscale antialiasing for a colour glyph is scoped to that
\* glyph's draw.  Whenever _drawGlyph returns, normally, through the
\* whitespace exit or with an error, the render target's text antialiasing
\* mode is the font's and its transform is the identity; non-colour glyphs
\* are recorded with the font's text shading type and colour glyphs with
\* TextPassthrough.
C38_ColorGlyphScoped ==
    color.stage = "returned" =>
        /\ color.target.exists
        /\ color.target.mode = color.antialiasingMode
        /\ color.target.transform = "identity"
        /\ \A i \in 1..Len(color.entries) :
             color.entries[i].shadingType =
                 IF color.colorGlyphs /\ color.layers
                 THEN "TextPassthrough"
                 ELSE FontTextShadingType(color.antialiasingMode)

\* Only the restoring: on every return the render target exists, has the
\* font's antialiasing mode and the identity transform
C38_RestoredOnReturn ==
    color.stage = "returned" =>
        /\ color.target.exists
        /\ color.target.mode = color.antialiasingMode
        /\ color.target.transform = "identity"

\* _drawGlyph never ends in a call through a null render target
C38_GuardsNeverCrash == color.stage # "crashed"

\* The restoring on the returns that leave a render target
C38_RestoredWhereTargetExists ==
    color.stage = "returned" /\ color.target.exists =>
        /\ color.target.mode = color.antialiasingMode
        /\ color.target.transform = "identity"

\* The recording for the entries with ink of glyphs of a font face
C38_InkRecordedByColour ==
    color.stage = "returned" /\ color.glyph[1] # 0 =>
        \A i \in 1..Len(color.entries) :
            color.entries[i].shadingType # "Default" =>
                color.entries[i].shadingType =
                    IF color.colorGlyphs /\ color.layers
                    THEN "TextPassthrough"
                    ELSE FontTextShadingType(color.antialiasingMode)


====
